---------------------------- MODULE Spec2Model ----------------------------
(***************************************************************************)
(* Model of the Display-family derive of derive_more                       *)
(* (impl/src/display.rs): the placeholder parser, the attribute lookup     *)
(* and the code-shape selection of expand.                                 *)
(***************************************************************************)
EXTENDS Integers, Sequences, FiniteSets, TLC

VARIABLES
    text,          \* the format string handed to parse_fmt_string, as characters
    pieces,        \* how that string was written: literals, escapes, placeholders
    placeholders,  \* the Vec<Placeholder> returned by the last parse call
    pc,            \* "write" | "parsed" ("idle" while a derive is modelled)
    decl,          \* the syn::DeriveInput the derive is invoked on
    lookup,        \* the last State::find_meta call: its arguments and result
    output,        \* the last expand call: its trait name and result
    epc            \* "build" | "looked_up" | "expanded" ("idle" while parsing)

parseVars == <<text, pieces, placeholders, pc>>

deriveVars == <<decl, lookup, output, epc>>

vars == <<text, pieces, placeholders, pc, decl, lookup, output, epc>>

(***************************************************************************)
(* Bounds of the model.                                                    *)
(***************************************************************************)
MaxPieces == 3
MaxAttrs == 3
MaxSize == 3

(***************************************************************************)
(* Characters and small helpers on character sequences.                    *)
(***************************************************************************)
Digits == <<"0", "1", "2", "3", "4", "5", "6", "7", "8", "9">>

IsDigit(c) == \E d \in 1..10 : Digits[d] = c

DigitVal(c) == (CHOOSE d \in 1..10 : Digits[d] = c) - 1

Letters == {"a", "b", "d", "e", "h", "i", "o", "p", "r", "t", "w", "x", "E", "X", "_"}

IsLetter(c) == c \in Letters

\* s[i], or "" past the end of the string
At(s, i) == IF i >= 1 /\ i <= Len(s) THEN s[i] ELSE ""

RECURSIVE DigitsEnd(_, _)
\* first index at or after i that holds no digit
DigitsEnd(s, i) == IF IsDigit(At(s, i)) THEN DigitsEnd(s, i + 1) ELSE i

RECURSIVE IdentEnd(_, _)
\* first index at or after i that holds neither a letter nor a digit
IdentEnd(s, i) ==
    IF IsLetter(At(s, i)) \/ IsDigit(At(s, i)) THEN IdentEnd(s, i + 1) ELSE i

RECURSIVE IntOf(_, _, _)
\* the decimal value of s[i..j-1]
IntOf(s, i, j) ==
    IF j <= i THEN 0 ELSE IntOf(s, i, j - 1) * 10 + DigitVal(s[j - 1])

RECURSIVE StrOf(_, _, _)
\* the string s[i..j-1]
StrOf(s, i, j) == IF j <= i THEN "" ELSE StrOf(s, i, j - 1) \o s[j - 1]

(***************************************************************************)
(* parsing::Argument, parsing::Count, parsing::Precision, parsing::Type    *)
(* and parsing::format_string: the grammar of std::fmt format strings.     *)
(***************************************************************************)
NoArgument == [tag |-> "None", index |-> 0, name |-> ""]

ArgInteger(i) == [tag |-> "Integer", index |-> i, name |-> ""]

ArgIdentifier(n) == [tag |-> "Identifier", index |-> 0, name |-> n]

NoCount == [tag |-> "None", index |-> 0, arg |-> NoArgument]

CountInteger(i) == [tag |-> "Integer", index |-> i, arg |-> NoArgument]

CountParameter(a) == [tag |-> "Parameter", index |-> 0, arg |-> a]

NoPrecision == [tag |-> "None", count |-> NoCount]

PrecisionCount(c) == [tag |-> "Count", count |-> c]

PrecisionStar == [tag |-> "Star", count |-> NoCount]

NoSpec == [present |-> FALSE, width |-> NoCount, precision |-> NoPrecision,
           ty |-> "Display"]

\* argument := integer | identifier, read at index i: [arg, next]
ParseArgument(s, i) ==
    IF IsDigit(At(s, i))
    THEN [arg |-> ArgInteger(IntOf(s, i, DigitsEnd(s, i))), next |-> DigitsEnd(s, i)]
    ELSE IF IsLetter(At(s, i))
    THEN [arg |-> ArgIdentifier(StrOf(s, i, IdentEnd(s, i))), next |-> IdentEnd(s, i)]
    ELSE [arg |-> NoArgument, next |-> i]

\* count := parameter | integer, parameter := argument '$', read at i: [count, next]
ParseCount(s, i) ==
    LET a == ParseArgument(s, i) IN
    IF a.arg.tag # "None" /\ At(s, a.next) = "$"
    THEN [count |-> CountParameter(a.arg), next |-> a.next + 1]
    ELSE IF a.arg.tag = "Integer"
    THEN [count |-> CountInteger(a.arg.index), next |-> a.next]
    ELSE [count |-> NoCount, next |-> i]

\* precision := count | '*', after a '.', read at i: [precision, next]
ParsePrecision(s, i) ==
    IF At(s, i) # "." THEN [precision |-> NoPrecision, next |-> i]
    ELSE IF At(s, i + 1) = "*" THEN [precision |-> PrecisionStar, next |-> i + 2]
    ELSE LET c == ParseCount(s, i + 1) IN
         [precision |-> PrecisionCount(c.count), next |-> c.next]

\* type := '' | '?' | 'x?' | 'X?' | 'o' | 'x' | 'X' | 'p' | 'b' | 'e' | 'E'
ParseType(s, i) ==
    LET c == At(s, i)
        d == At(s, i + 1) IN
    IF c = "?" THEN [ty |-> "Debug", next |-> i + 1]
    ELSE IF c = "x" /\ d = "?" THEN [ty |-> "LowerDebug", next |-> i + 2]
    ELSE IF c = "X" /\ d = "?" THEN [ty |-> "UpperDebug", next |-> i + 2]
    ELSE IF c = "o" THEN [ty |-> "Octal", next |-> i + 1]
    ELSE IF c = "x" THEN [ty |-> "LowerHex", next |-> i + 1]
    ELSE IF c = "X" THEN [ty |-> "UpperHex", next |-> i + 1]
    ELSE IF c = "p" THEN [ty |-> "Pointer", next |-> i + 1]
    ELSE IF c = "b" THEN [ty |-> "Binary", next |-> i + 1]
    ELSE IF c = "e" THEN [ty |-> "LowerExp", next |-> i + 1]
    ELSE IF c = "E" THEN [ty |-> "UpperExp", next |-> i + 1]
    ELSE [ty |-> "Display", next |-> i]

\* format_spec := ['#']['0'][width]['.' precision]type, read at i: [spec, next]
ParseFormatSpec(s, i) ==
    LET k1 == IF At(s, i) = "#" THEN i + 1 ELSE i
        k2 == IF At(s, k1) = "0" /\ At(s, k1 + 1) # "$" THEN k1 + 1 ELSE k1
        w == ParseCount(s, k2)
        p == ParsePrecision(s, w.next)
        t == ParseType(s, p.next) IN
    [spec |-> [present |-> TRUE, width |-> w.count, precision |-> p.precision,
               ty |-> t.ty],
     next |-> t.next]

\* format := '{' [argument] [':' format_spec] '}', read at the '{' at i
ParseFormat(s, i) ==
    LET a == ParseArgument(s, i + 1)
        sp == IF At(s, a.next) = ":" THEN ParseFormatSpec(s, a.next + 1)
              ELSE [spec |-> NoSpec, next |-> a.next] IN
    [ok |-> At(s, sp.next) = "}",
     format |-> [arg |-> a.arg, spec |-> sp.spec],
     next |-> sp.next + 1]

RECURSIVE FormatScan(_, _, _)
\* the scan goes on behind the format f, or fails with it
FormatScanAfter(s, f, acc) ==
    IF f.ok THEN FormatScan(s, f.next, Append(acc, f.format))
    ELSE [ok |-> FALSE, formats |-> <<>>]

\* format_string := text [format text]*, with {{ and }} as escaped braces
FormatScan(s, i, acc) ==
    IF i > Len(s) THEN [ok |-> TRUE, formats |-> acc]
    ELSE IF s[i] = "{" /\ At(s, i + 1) = "{" THEN FormatScan(s, i + 2, acc)
    ELSE IF s[i] = "}" /\ At(s, i + 1) = "}" THEN FormatScan(s, i + 2, acc)
    ELSE IF s[i] = "}" THEN [ok |-> FALSE, formats |-> <<>>]
    ELSE IF s[i] = "{" THEN FormatScanAfter(s, ParseFormat(s, i), acc)
    ELSE FormatScan(s, i + 1, acc)

\* parsing::format_string: Option<FormatString>; None when the string is malformed
format_string(s) == FormatScan(s, 1, <<>>)

\* parsing::Type::trait_name
trait_name(ty) ==
    IF ty \in {"Debug", "LowerDebug", "UpperDebug"} THEN "Debug" ELSE ty

(***************************************************************************)
(* Parameter and Placeholder of display.rs.                                *)
(***************************************************************************)
NoParameter == [tag |-> "None", index |-> 0, name |-> ""]

Positional(i) == [tag |-> "Positional", index |-> i, name |-> ""]

Named(n) == [tag |-> "Named", index |-> 0, name |-> n]

\* impl From<parsing::Argument> for Parameter
ParameterFrom(arg) ==
    IF arg.tag = "Integer" THEN Positional(arg.index) ELSE Named(arg.name)

\* WidthOf with a literal count taken for an argument reference
WidthOfAnyCount(spec) ==
    IF spec.present /\ spec.width.tag = "Parameter"
    THEN ParameterFrom(spec.width.arg)
    ELSE IF spec.present /\ spec.width.tag = "Integer"
    THEN Positional(spec.width.index) ELSE NoParameter

\* width: Some(Count::Parameter(arg)) => Some(arg.into()), _ => None
WidthOf(spec) ==
    IF spec.present /\ spec.width.tag = "Parameter"
    THEN ParameterFrom(spec.width.arg) ELSE NoParameter

\* precision: Some(Precision::Count(Count::Parameter(arg))) => Some(arg.into())
PrecisionOf(spec) ==
    IF spec.present /\ spec.precision.tag = "Count"
       /\ spec.precision.count.tag = "Parameter"
    THEN ParameterFrom(spec.precision.count.arg) ELSE NoParameter

\* TypeOf with the wrong default for a placeholder without a format spec
TypeOfDefaultDebug(spec) == IF spec.present THEN spec.ty ELSE "Debug"

\* format.spec.map(|s| s.ty).unwrap_or(parsing::Type::Display)
TypeOf(spec) == IF spec.present THEN spec.ty ELSE "Display"

RECURSIVE MapFormatsCountAll(_, _, _, _)
\* MapFormats with a counter that advances on every placeholder
MapFormatsCountAll(formats, i, n, acc) ==
    IF i > Len(formats) THEN acc
    ELSE LET format == formats[i]
             position == IF format.arg.tag = "None" THEN Positional(n)
                         ELSE ParameterFrom(format.arg)
             ph == [arg |-> position,
                    width |-> WidthOf(format.spec),
                    precision |-> PrecisionOf(format.spec),
                    trait_name |-> trait_name(TypeOf(format.spec))] IN
         MapFormatsCountAll(formats, i + 1, n + 1, Append(acc, ph))

RECURSIVE MapFormats(_, _, _, _)
\* the .map closure over the formats, with its captured counter n
MapFormats(formats, i, n, acc) ==
    IF i > Len(formats) THEN acc
    ELSE LET format == formats[i]
             implicit == format.arg.tag = "None"
             position == IF implicit THEN Positional(n)
                         ELSE ParameterFrom(format.arg)
             ph == [arg |-> position,
                    width |-> WidthOf(format.spec),
                    precision |-> PrecisionOf(format.spec),
                    trait_name |-> trait_name(TypeOf(format.spec))] IN
         MapFormats(formats, i + 1, IF implicit THEN n + 1 ELSE n,
                    Append(acc, ph))

\* the placeholder of the first format only
FirstPlaceholder(fs) ==
    IF fs.ok /\ fs.formats # <<>>
    THEN MapFormats(<<Head(fs.formats)>>, 1, 0, <<>>) ELSE <<>>

\* .into_iter().flat_map(|f| f.formats).map(..).collect() over the Option
Placeholders(fs) == IF fs.ok THEN MapFormats(fs.formats, 1, 0, <<>>) ELSE <<>>

\* parse_fmt_string keeping only the first format of the string
parse_fmt_string_first(s) == FirstPlaceholder(format_string(s))

\* Placeholder::parse_fmt_string
parse_fmt_string(s) == Placeholders(format_string(s))

(***************************************************************************)
(* The format strings handed to the parser: a string is written piece by   *)
(* piece (literal text, an escaped brace pair, or one placeholder), and    *)
(* `pieces` remembers what was written.                                    *)
(***************************************************************************)
RefNone == [tag |-> "None", index |-> 0, chars |-> <<>>]

RefLiteral(i) == [tag |-> "Literal", index |-> i, chars |-> <<>>]

RefPositional(i) == [tag |-> "Positional", index |-> i, chars |-> <<>>]

RefNamed(cs) == [tag |-> "Named", index |-> 0, chars |-> cs]

RefStar == [tag |-> "Star", index |-> 0, chars |-> <<>>]

SpecAbsent == [present |-> FALSE, alt |-> FALSE, zero |-> FALSE,
               width |-> RefNone, precision |-> RefNone, ty |-> <<>>]

SpecOf(alt, zero, width, precision, ty) ==
    [present |-> TRUE, alt |-> alt, zero |-> zero, width |-> width,
     precision |-> precision, ty |-> ty]

TextPiece(c) == [kind |-> "text", chars |-> <<c>>, arg |-> RefNone, spec |-> SpecAbsent]

OpenEscape == [kind |-> "escape", chars |-> <<"{", "{">>, arg |-> RefNone,
               spec |-> SpecAbsent]

CloseEscape == [kind |-> "escape", chars |-> <<"}", "}">>, arg |-> RefNone,
                spec |-> SpecAbsent]

PlaceholderPiece(arg, spec) == [kind |-> "placeholder", chars |-> <<>>, arg |-> arg,
                                spec |-> spec]

RECURSIVE RenderNat(_)
RenderNat(k) ==
    IF k < 10 THEN <<Digits[k + 1]>>
    ELSE RenderNat(k \div 10) \o <<Digits[(k % 10) + 1]>>

\* an argument, width or precision as it stands in the string
RenderRef(r) ==
    CASE r.tag = "None" -> <<>>
      [] r.tag = "Literal" -> RenderNat(r.index)
      [] r.tag = "Positional" -> RenderNat(r.index)
      [] r.tag = "Named" -> r.chars
      [] r.tag = "Star" -> <<"*">>

RenderCount(r) ==
    IF r.tag \in {"Positional", "Named"} THEN RenderRef(r) \o <<"$">>
    ELSE RenderRef(r)

RenderSpec(sp) ==
    IF ~sp.present THEN <<>>
    ELSE <<":">> \o (IF sp.alt THEN <<"#">> ELSE <<>>)
         \o (IF sp.zero THEN <<"0">> ELSE <<>>)
         \o RenderCount(sp.width)
         \o (IF sp.precision.tag = "None" THEN <<>>
             ELSE <<".">> \o RenderCount(sp.precision))
         \o sp.ty

RenderPiece(p) ==
    IF p.kind = "placeholder"
    THEN <<"{">> \o RenderRef(p.arg) \o RenderSpec(p.spec) \o <<"}">>
    ELSE p.chars

RECURSIVE RenderPieces(_)
RenderPieces(ps) ==
    IF ps = <<>> THEN <<>> ELSE RenderPiece(Head(ps)) \o RenderPieces(Tail(ps))

NamePar == <<"p", "a", "r">>

NameWidth == <<"w", "i", "d", "t", "h">>

ArgForms == {RefNone, RefPositional(1), RefNamed(<<"a">>)}

CrossedSpecForms ==
    {SpecAbsent,
     SpecOf(TRUE, FALSE, RefNone, RefNone, <<"?">>),
     SpecOf(FALSE, FALSE, RefPositional(0), RefNone, <<>>),
     SpecOf(FALSE, FALSE, RefNone, RefPositional(1), <<"x">>)}

ExtraSpecForms ==
    {SpecOf(FALSE, FALSE, RefNone, RefNone, <<>>),
     SpecOf(FALSE, FALSE, RefNamed(<<"w">>), RefNone, <<"o">>),
     SpecOf(FALSE, TRUE, RefLiteral(5), RefNone, <<"X">>),
     SpecOf(FALSE, FALSE, RefNone, RefStar, <<"b">>),
     SpecOf(FALSE, FALSE, RefLiteral(5), RefLiteral(3), <<"e">>),
     SpecOf(FALSE, FALSE, RefNamed(<<"w">>), RefNamed(<<"a">>), <<"x", "?">>),
     SpecOf(FALSE, FALSE, RefNone, RefNone, <<"E">>),
     SpecOf(TRUE, FALSE, RefNone, RefNone, <<"p">>)}

PlaceholderForms ==
    {PlaceholderPiece(a, sp) : a \in ArgForms, sp \in CrossedSpecForms}
    \cup {PlaceholderPiece(RefNone, sp) : sp \in ExtraSpecForms}

\* the string of the test indicates_position_and_trait_name_for_each_fmt_placeholder:
\* "{},{:?},{{}},{{{1:0$}}}-{2:.1$x}{par:#?}{:width$}"
TestPieces ==
    <<PlaceholderPiece(RefNone, SpecAbsent),
      TextPiece(","),
      PlaceholderPiece(RefNone, SpecOf(FALSE, FALSE, RefNone, RefNone, <<"?">>)),
      TextPiece(","), OpenEscape, CloseEscape, TextPiece(","), OpenEscape,
      PlaceholderPiece(RefPositional(1),
                       SpecOf(FALSE, FALSE, RefPositional(0), RefNone, <<>>)),
      CloseEscape, TextPiece("-"),
      PlaceholderPiece(RefPositional(2),
                       SpecOf(FALSE, FALSE, RefNone, RefPositional(1), <<"x">>)),
      PlaceholderPiece(RefNamed(NamePar),
                       SpecOf(TRUE, FALSE, RefNone, RefNone, <<"?">>)),
      PlaceholderPiece(RefNone,
                       SpecOf(FALSE, FALSE, RefNamed(NameWidth), RefNone, <<>>))>>

\* no derive is running while the parser is exercised
DeriveIdle ==
    /\ decl = <<>>
    /\ lookup = <<>>
    /\ output = <<>>
    /\ epc = "idle"

Init ==
    /\ pieces \in {<<>>, TestPieces}
    /\ text = RenderPieces(pieces)
    /\ placeholders = <<>>
    /\ pc = "write"
    /\ DeriveIdle

Write(p) ==
    /\ Len(pieces) < MaxPieces
    /\ pieces' = Append(pieces, p)
    /\ text' = text \o RenderPiece(p)
    /\ placeholders' = <<>>
    /\ pc' = "write"
    /\ UNCHANGED deriveVars

WriteText == Write(TextPiece(","))

WriteEscape == \E p \in {OpenEscape, CloseEscape} : Write(p)

WritePlaceholder == \E p \in PlaceholderForms : Write(p)

\* one call of Placeholder::parse_fmt_string on the string written so far
ParseFmtString ==
    /\ pc = "write"
    /\ placeholders' = parse_fmt_string(text)
    /\ pc' = "parsed"
    /\ UNCHANGED <<text, pieces>>
    /\ UNCHANGED deriveVars

Next == WriteText \/ WriteEscape \/ WritePlaceholder \/ ParseFmtString

Spec == Init /\ [][Next]_vars

(***************************************************************************)
(* Properties of Placeholder::parse_fmt_string.                            *)
(***************************************************************************)
\* the placeholders as written, left to right
Written == SelectSeq(pieces, LAMBDA p : p.kind = "placeholder")

RECURSIVE Join(_)
Join(cs) == IF cs = <<>> THEN "" ELSE Head(cs) \o Join(Tail(cs))

\* the Parameter an explicit reference in the string stands for
ReferenceOf(r) ==
    CASE r.tag = "Positional" -> Positional(r.index)
      [] r.tag = "Named" -> Named(Join(r.chars))
      [] OTHER -> NoParameter

\* how many placeholders before the i-th were written without an argument
ImplicitBefore(i) ==
    Cardinality({j \in 1..(i - 1) : Written[j].arg.tag = "None"})

FormattingTraits ==
    {"Display", "Debug", "Binary", "Octal", "LowerHex", "UpperHex", "LowerExp",
     "UpperExp", "Pointer"}

\* C1: the k-th placeholder without an explicit argument gets Positional(k),
\* whatever explicit placeholders precede it; an explicit index or name is kept
\* as written and does not advance the counter; every call counts from 0.
C1_ImplicitNumbering ==
    pc = "parsed" =>
        \A i \in 1..Len(Written) :
            /\ i \in DOMAIN placeholders
            /\ placeholders[i].arg =
                   IF Written[i].arg.tag = "None"
                   THEN Positional(ImplicitBefore(i))
                   ELSE ReferenceOf(Written[i].arg)

\* C1 witness: the second implicit placeholder, after an explicitly indexed one,
\* got Positional(1)
C1_Witness ==
    /\ pc = "parsed"
    /\ \E i \in DOMAIN placeholders, j \in DOMAIN placeholders :
          /\ i <= Len(Written) /\ j < i
          /\ Written[j].arg.tag = "Positional"
          /\ Written[i].arg.tag = "None"
          /\ ImplicitBefore(i) = 1
          /\ placeholders[i].arg = Positional(1)
          /\ placeholders[j].arg = Positional(Written[j].arg.index)

\* C2: width and precision are present exactly for `N$` and `name$`, absent for a
\* literal count, `*` or nothing, and a width or precision reference leaves the
\* numbering of the implicit primary arguments alone.
C2_WidthPrecision ==
    pc = "parsed" =>
        /\ Len(placeholders) = Len(Written)
        /\ \A i \in DOMAIN placeholders :
              /\ placeholders[i].width = ReferenceOf(Written[i].spec.width)
              /\ placeholders[i].precision = ReferenceOf(Written[i].spec.precision)
              /\ (placeholders[i].width.tag # "None")
                    = (Written[i].spec.width.tag \in {"Positional", "Named"})
              /\ (placeholders[i].precision.tag # "None")
                    = (Written[i].spec.precision.tag \in {"Positional", "Named"})
              /\ Written[i].arg.tag = "None"
                    => placeholders[i].arg.index = ImplicitBefore(i)

\* C2 witness: a literal width is absent while a `0$` width before an implicit
\* placeholder is Positional(0) and the implicit placeholder still gets its index
C2_Witness ==
    /\ pc = "parsed"
    /\ \E i \in DOMAIN placeholders, j \in DOMAIN placeholders,
          k \in DOMAIN placeholders :
          /\ k <= Len(Written)
          /\ Written[i].spec.width.tag = "Literal"
          /\ placeholders[i].width = NoParameter
          /\ Written[j].spec.width.tag = "Positional"
          /\ placeholders[j].width = Positional(0)
          /\ j < k /\ Written[k].arg.tag = "None" /\ Written[j].arg.tag = "None"
          /\ placeholders[k].arg = Positional(ImplicitBefore(k))

\* the trait a type specifier selects
TraitOfSpecifier(ty) ==
    CASE ty = <<>> -> "Display"
      [] ty = <<"?">> -> "Debug"
      [] ty = <<"x", "?">> -> "Debug"
      [] ty = <<"X", "?">> -> "Debug"
      [] ty = <<"x">> -> "LowerHex"
      [] ty = <<"X">> -> "UpperHex"
      [] ty = <<"o">> -> "Octal"
      [] ty = <<"p">> -> "Pointer"
      [] ty = <<"b">> -> "Binary"
      [] ty = <<"e">> -> "LowerExp"
      [] ty = <<"E">> -> "UpperExp"

\* C3: the trait of a placeholder is one of the nine formatting traits and is
\* decided by the type specifier alone: Display without one, Debug for `?`,
\* LowerHex for `x`, UpperHex for `X`, whatever the argument, width or precision.
C3_TraitBySpecifier ==
    pc = "parsed" =>
        /\ Len(placeholders) = Len(Written)
        /\ \A i \in DOMAIN placeholders :
              /\ placeholders[i].trait_name \in FormattingTraits
              /\ placeholders[i].trait_name = TraitOfSpecifier(Written[i].spec.ty)

\* C3 witness: a placeholder without a format spec is Display next to a `#?`
\* placeholder that is Debug and an `x` placeholder with a precision reference
C3_Witness ==
    /\ pc = "parsed"
    /\ \E i \in DOMAIN placeholders, j \in DOMAIN placeholders,
          k \in DOMAIN placeholders :
          /\ k <= Len(Written) /\ i <= Len(Written) /\ j <= Len(Written)
          /\ ~Written[i].spec.present /\ placeholders[i].trait_name = "Display"
          /\ Written[j].spec.alt /\ Written[j].spec.ty = <<"?">>
          /\ placeholders[j].trait_name = "Debug"
          /\ Written[k].spec.ty = <<"x">> /\ Written[k].spec.precision.tag = "Positional"
          /\ placeholders[k].trait_name = "LowerHex"

\* C4: one Placeholder per un-escaped group, in the order written; `{{` and `}}`
\* give none, and a string without a group gives the empty sequence.
C4_OnePerGroup ==
    pc = "parsed" =>
        /\ Len(placeholders) = Len(Written)
        /\ \A i \in DOMAIN placeholders :
              /\ (placeholders[i].arg.tag = "Named") = (Written[i].arg.tag = "Named")
              /\ (placeholders[i].width.tag = "None")
                    = (Written[i].spec.width.tag \notin {"Positional", "Named"})

\* C4 witness: escaped pairs directly around a real placeholder, as in {{{1:0$}}},
\* give exactly that one placeholder
C4_Witness ==
    /\ pc = "parsed"
    /\ Len(pieces) >= 3
    /\ \E i \in 2..(Len(pieces) - 1) :
          /\ pieces[i - 1] = OpenEscape
          /\ pieces[i].kind = "placeholder"
          /\ pieces[i + 1] = CloseEscape
    /\ Len(Written) >= 1
    /\ Len(placeholders) = Len(Written)

(***************************************************************************)
(* Attributes as syn hands them over: an attribute has a path and, once    *)
(* Attribute::parse_meta has run, a syn::Meta (or a parse error).          *)
(***************************************************************************)
\* what syn makes of a bounds literal: Punctuated<GenericParam, Token![,]>
NoGenerics == [syntax |-> "none", params |-> <<>>]

Generics(params) == [syntax |-> "ok", params |-> params]

\* syn::NestedMeta
NestedNameValue(path, lit, str, generics) ==
    [kind |-> "NameValue", path |-> path, lit |-> lit, str |-> str,
     generics |-> generics, expr |-> ""]

NestedLit(expr) ==
    [kind |-> "Lit", path |-> "", lit |-> "Str", str |-> <<>>,
     generics |-> NoGenerics, expr |-> expr]

NestedPath(ident) ==
    [kind |-> "Path", path |-> ident, lit |-> "", str |-> <<>>,
     generics |-> NoGenerics, expr |-> ""]

NestedList(ident) ==
    [kind |-> "List", path |-> ident, lit |-> "", str |-> <<>>,
     generics |-> NoGenerics, expr |-> ""]

\* syn::Meta of one attribute, or the error of Attribute::parse_meta
MetaError == [kind |-> "Error", nested |-> <<>>]

MetaPath == [kind |-> "Path", nested |-> <<>>]

MetaNameValue == [kind |-> "NameValue", nested |-> <<>>]

MetaList(nested) == [kind |-> "List", nested |-> nested]

Attribute(path, meta) == [path |-> path, meta |-> meta]

\* Allowed [`syn::MetaNameValue`] arguments of `#[display]` attribute.
ALLOWED_ATTRIBUTE_ARGUMENTS == <<"fmt", "bound">>

RECURSIVE FoldKeys(_, _, _)
\* the fold of find_meta that joins the allowed keys with ", "
FoldKeys(keys, i, acc) ==
    IF i > Len(keys) THEN acc
    ELSE FoldKeys(keys, i + 1,
                  IF acc.some THEN [some |-> TRUE, str |-> acc.str \o ", " \o keys[i]]
                  ELSE [some |-> TRUE, str |-> keys[i]])

AllowedKeysList == FoldKeys(ALLOWED_ATTRIBUTE_ARGUMENTS, 1, [some |-> FALSE, str |-> ""]).str

\* the allow-list check accepting every key
IsAllowedKeyAny(path) == path = path

IsAllowedKey(path) ==
    \E i \in DOMAIN ALLOWED_ATTRIBUTE_ARGUMENTS : ALLOWED_ATTRIBUTE_ARGUMENTS[i] = path

\* Result<Option<syn::Meta>>
NoMeta == [kind |-> "None", nested |-> <<>>]

MetaOk(meta) == [status |-> "Ok", meta |-> meta, msg |-> ""]

MetaErr(msg) == [status |-> "Err", meta |-> NoMeta, msg |-> msg]

ParseMetaMsg == "syn: the attribute is not a meta item"

CannotParseMsg(trait_attr, meta_key) ==
    "The format for this attribute cannot be parsed. Correct format: #["
    \o trait_attr \o "(" \o meta_key \o " = ...)]"

UnknownArgumentMsg(path) ==
    "Unknown " \o path \o " attribute argument. Allowed arguments are: "
    \o AllowedKeysList

TooManyMsg == "Too many attributes specified"

RECURSIVE FindMetaLoop(_, _, _, _, _)
\* the for loop of find_meta over the attributes of the namespace of the trait
FindMetaLoop(trait_attr, attrs, meta_key, i, metas) ==
    IF i > Len(attrs) THEN [status |-> "Ok", metas |-> metas, msg |-> ""]
    ELSE LET attr == attrs[i]
             meta == attr.meta IN
         IF attr.path # trait_attr
         THEN FindMetaLoop(trait_attr, attrs, meta_key, i + 1, metas)
         ELSE IF meta.kind = "Error"
         THEN [status |-> "Err", metas |-> <<>>, msg |-> ParseMetaMsg]
         ELSE IF meta.kind # "List"
         THEN FindMetaLoop(trait_attr, attrs, meta_key, i + 1, metas)
         ELSE IF meta.nested = <<>> \/ Head(meta.nested).kind # "NameValue"
         THEN [status |-> "Err", metas |-> <<>>,
               msg |-> CannotParseMsg(trait_attr, meta_key)]
         ELSE IF ~IsAllowedKey(Head(meta.nested).path)
         THEN [status |-> "Err", metas |-> <<>>,
               msg |-> UnknownArgumentMsg(Head(meta.nested).path)]
         ELSE FindMetaLoop(trait_attr, attrs, meta_key, i + 1,
                           IF Head(meta.nested).path = meta_key
                           THEN Append(metas, meta) ELSE metas)

\* find_meta returning the first match when several attributes carry the key
find_meta_first(trait_attr, attrs, meta_key) ==
    LET r == FindMetaLoop(trait_attr, attrs, meta_key, 1, <<>>) IN
    IF r.status = "Err" THEN MetaErr(r.msg)
    ELSE IF r.metas = <<>> THEN MetaOk(NoMeta)
    ELSE MetaOk(Head(r.metas))

\* find_meta giving up its checks of the attributes that do not carry the key
find_meta_lenient(trait_attr, attrs, meta_key) ==
    LET keyed == SelectSeq(attrs, LAMBDA a :
                     a.path # trait_attr \/ a.meta.kind # "List"
                     \/ (a.meta.nested # <<>> /\ Head(a.meta.nested).kind = "NameValue"
                         /\ Head(a.meta.nested).path = meta_key))
        r == FindMetaLoop(trait_attr, keyed, meta_key, 1, <<>>) IN
    IF r.status = "Err" THEN MetaErr(r.msg)
    ELSE IF r.metas = <<>> THEN MetaOk(NoMeta)
    ELSE IF Len(r.metas) = 1 THEN MetaOk(Head(r.metas))
    ELSE MetaErr(TooManyMsg)

\* State::find_meta
find_meta(trait_attr, attrs, meta_key) ==
    LET r == FindMetaLoop(trait_attr, attrs, meta_key, 1, <<>>) IN
    IF r.status = "Err" THEN MetaErr(r.msg)
    ELSE IF r.metas = <<>> THEN MetaOk(NoMeta)
    ELSE IF Len(r.metas) = 1 THEN MetaOk(Head(r.metas))
    ELSE MetaErr(TooManyMsg)

(***************************************************************************)
(* The attribute lookup on its own: attributes are put on an item one by   *)
(* one and find_meta is called on them for either key.                     *)
(***************************************************************************)
FmtLiteral == <<"o", "k">>

FmtOne == <<"{", "}">>

BoundT == Generics(<<[kind |-> "Type", ident |-> "T", attrs |-> FALSE,
                      default |-> FALSE,
                      bounds |-> <<[kind |-> "Trait", hrtb |-> FALSE,
                                    path |-> "Display"]>>]>>)

BoundSource == <<"T", ":", "D">>

AttrFmt(path, str, args) ==
    Attribute(path, MetaList(<<NestedNameValue("fmt", "Str", str, NoGenerics)>> \o args))

AttrBound(path, str, generics) ==
    Attribute(path, MetaList(<<NestedNameValue("bound", "Str", str, generics)>>))

\* #[doc], #[display], #[display = ".."], #[display()], #[display("foo")],
\* #[display(foo)], #[display(foo(..))], #[display(other = "..")],
\* #[display(a + b)], #[display(fmt = "..")], #[display(fmt = "{}", _0)],
\* #[display(bound = "..")], #[lower_hex(fmt = "..")]
LookupAttrForms ==
    {Attribute("doc", MetaNameValue),
     Attribute("display", MetaPath),
     Attribute("display", MetaNameValue),
     Attribute("display", MetaList(<<>>)),
     Attribute("display", MetaList(<<NestedLit("foo")>>)),
     Attribute("display", MetaList(<<NestedPath("foo")>>)),
     Attribute("display", MetaList(<<NestedList("foo")>>)),
     Attribute("display", MetaList(<<NestedNameValue("other", "Str", FmtLiteral,
                                                     NoGenerics)>>)),
     Attribute("display", MetaError),
     AttrFmt("display", FmtLiteral, <<>>),
     AttrFmt("display", FmtOne, <<NestedPath("_0")>>),
     AttrBound("display", BoundSource, BoundT),
     AttrFmt("lower_hex", FmtLiteral, <<>>)}

UnitStruct ==
    [kind |-> "struct", ident |-> "S", attrs |-> <<>>, type_params |-> {},
     fields |-> [shape |-> "Unit", list |-> <<>>], variants |-> <<>>]

ParserIdle ==
    /\ text = <<>>
    /\ pieces = <<>>
    /\ placeholders = <<>>
    /\ pc = "idle"

InitFindMeta ==
    /\ ParserIdle
    /\ decl = UnitStruct
    /\ lookup = <<>>
    /\ output = <<>>
    /\ epc = "build"

\* one more attribute on the item
AddAttr ==
    /\ Len(decl.attrs) < MaxAttrs
    /\ \E a \in LookupAttrForms : decl' = [decl EXCEPT !.attrs = Append(@, a)]
    /\ lookup' = <<>>
    /\ output' = <<>>
    /\ epc' = "build"
    /\ UNCHANGED parseVars

\* the attribute lists the generator looks up: the item's and each variant's
LookupPoints == {0} \cup DOMAIN decl.variants

AttrsAt(point) == IF point = 0 THEN decl.attrs ELSE decl.variants[point].attrs

\* one call of State::find_meta on the attributes of the item or of a variant
FindMeta ==
    /\ epc = "build"
    /\ \E point \in LookupPoints, trait_attr \in {"display", "lower_hex"},
          meta_key \in {"fmt", "bound"} :
          lookup' = [point |-> point, trait_attr |-> trait_attr,
                     attrs |-> AttrsAt(point), meta_key |-> meta_key,
                     result |-> find_meta(trait_attr, AttrsAt(point), meta_key)]
    /\ epc' = "looked_up"
    /\ UNCHANGED <<decl, output>>
    /\ UNCHANGED parseVars

NextFindMeta == AddAttr \/ FindMeta

SpecFindMeta == InitFindMeta /\ [][NextFindMeta]_vars

(***************************************************************************)
(* Properties of State::find_meta.                                         *)
(***************************************************************************)
\* the attributes of the looked-up list that belong to the namespace of the trait
InNamespace(l) == {i \in DOMAIN l.attrs : l.attrs[i].path = l.trait_attr}

\* a list-form attribute whose first entry is no `name = literal` pair
NotNameValueFirst(a) ==
    /\ a.meta.kind = "List"
    /\ (a.meta.nested = <<>> \/ Head(a.meta.nested).kind # "NameValue")

\* a list-form attribute whose first entry is `name = literal` with another name
\* than fmt and bound
UnknownKeyFirst(a) ==
    /\ a.meta.kind = "List"
    /\ a.meta.nested # <<>>
    /\ Head(a.meta.nested).kind = "NameValue"
    /\ Head(a.meta.nested).path \notin {"fmt", "bound"}

\* a list-form attribute that carries key k as its first entry
CarriesKey(a, k) ==
    /\ a.meta.kind = "List"
    /\ a.meta.nested # <<>>
    /\ Head(a.meta.nested).kind = "NameValue"
    /\ Head(a.meta.nested).path = k

Rejected(a) == a.meta.kind = "Error" \/ NotNameValueFirst(a) \/ UnknownKeyFirst(a)

\* C7 as stated: None is returned only when no attribute of the namespace is on
\* the attachment point.
C7_NoneOnlyWithoutNamespace ==
    (epc = "looked_up" /\ lookup.result = MetaOk(NoMeta)) => InNamespace(lookup) = {}

\* C7 amended: None is returned exactly when no attribute of the namespace is
\* rejected and none carries the requested key; attributes of the namespace in
\* path or name-value form, or carrying only the other key, still give None.
C7_NoneWithoutRequestedKey ==
    epc = "looked_up" =>
        (lookup.result = MetaOk(NoMeta))
          = (\A i \in InNamespace(lookup) :
                /\ ~Rejected(lookup.attrs[i])
                /\ ~CarriesKey(lookup.attrs[i], lookup.meta_key))

\* C7 witness: fmt is looked up where the only attribute of the namespace carries
\* bound, and the result is None
C7_Witness ==
    /\ epc = "looked_up"
    /\ lookup.meta_key = "fmt"
    /\ InNamespace(lookup) # {}
    /\ \A i \in InNamespace(lookup) : CarriesKey(lookup.attrs[i], "bound")
    /\ lookup.result = MetaOk(NoMeta)

\* the first attribute of the namespace that find_meta rejects
FirstRejected(l) ==
    CHOOSE i \in InNamespace(l) :
        /\ Rejected(l.attrs[i])
        /\ \A j \in InNamespace(l) : Rejected(l.attrs[j]) => i <= j

\* C10: whichever key is requested, a list-form attribute of the namespace whose
\* first entry is no `name = literal` pair, or names another key than fmt and
\* bound, makes find_meta fail; the unknown-key error lists the allowed keys.
C10_MalformedAttributeFails ==
    (epc = "looked_up"
     /\ \E i \in InNamespace(lookup) :
           NotNameValueFirst(lookup.attrs[i]) \/ UnknownKeyFirst(lookup.attrs[i]))
    => /\ lookup.result.status = "Err"
       /\ lookup.result.meta = NoMeta
       /\ UnknownKeyFirst(lookup.attrs[FirstRejected(lookup)])
            => lookup.result.msg
                 = "Unknown other attribute argument. Allowed arguments are: fmt, bound"
       /\ NotNameValueFirst(lookup.attrs[FirstRejected(lookup)])
            => lookup.result.msg = CannotParseMsg(lookup.trait_attr, lookup.meta_key)

\* C10 witness: bound is looked up, a well-formed fmt attribute is followed by an
\* attribute with an unknown key, and the error lists fmt and bound
C10_Witness ==
    /\ epc = "looked_up"
    /\ lookup.meta_key = "bound"
    /\ Len(lookup.attrs) >= 2
    /\ CarriesKey(lookup.attrs[1], "fmt")
    /\ lookup.attrs[1].path = lookup.trait_attr
    /\ \E i \in InNamespace(lookup) : UnknownKeyFirst(lookup.attrs[i])
    /\ lookup.result.status = "Err"
    /\ lookup.result.msg
         = "Unknown other attribute argument. Allowed arguments are: fmt, bound"

(***************************************************************************)
(* The State of one expansion and its helpers (display.rs, impl State).    *)
(***************************************************************************)
\* syn::Type of a field: its text, the identifiers it mentions and, for a
\* reference, the type referred to
Type(repr, uses, elem) == [repr |-> repr, uses |-> uses, elem |-> elem]

TypeT == Type("T", {"T"}, "")

TypeU32 == Type("u32", {}, "")

TypeVecT == Type("Vec<T>", {"T"}, "")

TypeRefT == Type("&T", {"T"}, "T")

\* syn::Field; an unnamed field has the ident ""
Field(ident, ty, attrs) == [ident |-> ident, ty |-> ty, attrs |-> attrs]

\* syn::Fields
Fields(shape, list) == [shape |-> shape, list |-> list]

\* syn::Variant
Variant(ident, attrs, fields) == [ident |-> ident, attrs |-> attrs, fields |-> fields]

\* utils::get_if_type_parameter_used_in_type: Option<syn::Type>, "" for None
get_if_type_parameter_used_in_type(type_params, ty) ==
    IF ty.uses \cap type_params = {} THEN ""
    ELSE IF ty.elem # "" THEN ty.elem ELSE ty.repr

\* the strings trait_name.trim_end_matches("Custom") works on, as segments
RECURSIVE TrimCustom(_)
TrimCustom(name) ==
    IF name # <<>> /\ name[Len(name)] = "Custom"
    THEN TrimCustom(SubSeq(name, 1, Len(name) - 1)) ELSE name

\* trait_name_to_attribute_name; "!" stands for unimplemented!()
trait_name_to_attribute_name(name) ==
    CASE name = "Display" -> "display"
      [] name = "Binary" -> "binary"
      [] name = "Octal" -> "octal"
      [] name = "LowerHex" -> "lower_hex"
      [] name = "UpperHex" -> "upper_hex"
      [] name = "LowerExp" -> "lower_exp"
      [] name = "UpperExp" -> "upper_exp"
      [] name = "Pointer" -> "pointer"
      [] name = "Debug" -> "debug"
      [] OTHER -> "!"

\* attribute_name_to_trait_name; "!" stands for unreachable!()
attribute_name_to_trait_name(attribute_name) ==
    CASE attribute_name = "display" -> "Display"
      [] attribute_name = "binary" -> "Binary"
      [] attribute_name = "octal" -> "Octal"
      [] attribute_name = "lower_hex" -> "LowerHex"
      [] attribute_name = "upper_hex" -> "UpperHex"
      [] attribute_name = "lower_exp" -> "LowerExp"
      [] attribute_name = "upper_exp" -> "UpperExp"
      [] attribute_name = "pointer" -> "Pointer"
      [] OTHER -> "!"

\* trait_name_to_trait_bound: the path ::core::fmt::<trait_name>
trait_name_to_trait_bound(name) == "::core::fmt::" \o name

\* a bound of a where-clause: type key and trait bound
Bound(ty, bound) == [ty |-> ty, bound |-> bound]

\* the generated bodies (token streams) of a match arm
Body(kind, fmt, args, named, name, trait_path, field) ==
    [kind |-> kind, fmt |-> fmt, args |-> args, named |-> named, name |-> name,
     trait_path |-> trait_path, field |-> field]

NoBody == Body("none", <<>>, <<>>, {}, "", "", "")

\* write!(_derive_more_display_formatter, #fmt, #args #interpolated_args)
WriteBody(fmt, args, named) == Body("write", fmt, args, named, "", "", "")

\* the bare literal #fmt returned for the affix of an enum
LiteralBody(fmt) == Body("literal", fmt, <<>>, {}, "", "", "")

\* _derive_more_display_formatter.write_str(stringify!(#name))
WriteStrBody(name) == Body("write_str", <<>>, <<>>, {}, name, "", "")

\* #trait_path::fmt(#ident, _derive_more_display_formatter)
DelegateBody(trait_path, field) == Body("fmt", <<>>, <<>>, {}, "", trait_path, field)

ProperFmtSyntax(trait_attr) ==
    "Proper syntax: #[" \o trait_attr \o "(fmt = 'My format', 'arg1', 'arg2')]"

ProperBoundSyntax(trait_attr) ==
    "Proper syntax: #[" \o trait_attr \o "(bound = 'T, U: Trait1 + Trait2, V: Trait3')]"

ExpectedAffixUsage ==
    "outer enum fmt is an affix spec that expects no args and at most 1 placeholder for inner variant display"

IndexOutOfBounds == "index out of bounds"

\* Result<(TokenStream, bool)>, or the panic of the generator
FmtOk(body, flag) == [status |-> "Ok", msg |-> "", body |-> body, flag |-> flag]

FmtErr(msg) == [status |-> "Err", msg |-> msg, body |-> NoBody, flag |-> FALSE]

FmtPanic(msg) == [status |-> "Panic", msg |-> msg, body |-> NoBody, flag |-> FALSE]

\* string literals that do not lex as a token stream
UnlexableExprs == {"("}

\* strings that syn::parse_str reads as a syn::Path
PathExprs == {"_0", "_1", "a", "b", "self::a"}

\* list.nested[i].span(): indexing the Punctuated list, which panics past its end
NestedSpanOk(nested, i) == i < Len(nested)

RECURSIVE FmtArgs(_, _, _, _)
\* FmtArgs putting each argument before the ones already folded
FmtArgsPrepended(trait_attr, nested, i, args) ==
    IF i > Len(nested) THEN [status |-> "Ok", msg |-> "", args |-> args]
    ELSE IF nested[i].kind = "Lit" /\ nested[i].lit = "Str"
    THEN IF nested[i].expr \in UnlexableExprs
         THEN [status |-> "Err", msg |-> "cannot parse string into token stream",
               args |-> <<>>]
         ELSE FmtArgs(trait_attr, nested, i + 1, <<nested[i].expr>> \o args)
    ELSE IF nested[i].kind = "Path"
    THEN FmtArgs(trait_attr, nested, i + 1, <<nested[i].path>> \o args)
    ELSE [status |-> "Err", msg |-> ProperFmtSyntax(trait_attr), args |-> <<>>]

\* the try_fold over the explicit arguments after fmt = "..."
FmtArgs(trait_attr, nested, i, args) ==
    IF i > Len(nested) THEN [status |-> "Ok", msg |-> "", args |-> args]
    ELSE LET arg == nested[i] IN
         IF arg.kind = "Lit" /\ arg.lit = "Str"
         THEN IF arg.expr \in UnlexableExprs
              THEN [status |-> "Err", msg |-> "cannot parse string into token stream",
                    args |-> <<>>]
              ELSE FmtArgs(trait_attr, nested, i + 1, Append(args, arg.expr))
         ELSE IF arg.kind = "Path"
         THEN FmtArgs(trait_attr, nested, i + 1, Append(args, arg.path))
         ELSE [status |-> "Err", msg |-> ProperFmtSyntax(trait_attr), args |-> <<>>]

\* the names of the named arguments of the placeholders alone
InterpolatedArgsOfArguments(phs) ==
    {phs[i].arg.name : i \in {j \in DOMAIN phs : phs[j].arg.tag = "Named"}}

\* the names of the named arguments, widths and precisions of the placeholders
InterpolatedArgs(phs) ==
    {phs[i].arg.name : i \in {j \in DOMAIN phs : phs[j].arg.tag = "Named"}}
    \cup {phs[i].width.name : i \in {j \in DOMAIN phs : phs[j].width.tag = "Named"}}
    \cup {phs[i].precision.name :
            i \in {j \in DOMAIN phs : phs[j].precision.tag = "Named"}}

\* the write! body once the explicit arguments are folded
FmtWithArgs(fmt, phs, args) ==
    IF args.status = "Err" THEN FmtErr(args.msg)
    ELSE FmtOk(WriteBody(fmt, args.args, InterpolatedArgs(phs)), FALSE)

\* FmtOfPlaceholders without the check for arguments after the affix
FmtOfPlaceholdersAnyArgs(trait_attr, meta, outer_enum, fmt, phs) ==
    IF outer_enum
       /\ (Len(phs) > 1 \/ (phs # <<>> /\ phs[1].arg # Positional(0)))
    THEN IF NestedSpanOk(meta.nested, 1) THEN FmtErr(ExpectedAffixUsage)
         ELSE FmtPanic(IndexOutOfBounds)
    ELSE IF outer_enum /\ Len(phs) = 1 THEN FmtOk(LiteralBody(fmt), TRUE)
    ELSE FmtWithArgs(fmt, phs, FmtArgs(trait_attr, meta.nested, 2, <<>>))

\* parse_meta_fmt from the affix checks on: fmt and its placeholders phs
FmtOfPlaceholders(trait_attr, meta, outer_enum, fmt, phs) ==
    IF outer_enum /\ Len(meta.nested) > 1
    THEN FmtErr(ExpectedAffixUsage)
    ELSE IF outer_enum
            /\ (Len(phs) > 1 \/ (phs # <<>> /\ phs[1].arg # Positional(0)))
    THEN IF NestedSpanOk(meta.nested, 1) THEN FmtErr(ExpectedAffixUsage)
         ELSE FmtPanic(IndexOutOfBounds)
    ELSE IF outer_enum /\ Len(phs) = 1 THEN FmtOk(LiteralBody(fmt), TRUE)
    ELSE FmtWithArgs(fmt, phs, FmtArgs(trait_attr, meta.nested, 2, <<>>))

\* State::parse_meta_fmt
parse_meta_fmt(trait_attr, meta, outer_enum) ==
    IF meta.kind # "List" THEN FmtErr(ProperFmtSyntax(trait_attr))
    ELSE IF ~NestedSpanOk(meta.nested, 0) THEN FmtPanic(IndexOutOfBounds)
    ELSE IF Head(meta.nested).kind # "NameValue" \/ Head(meta.nested).lit # "Str"
    THEN FmtErr(ProperFmtSyntax(trait_attr))
    ELSE IF Head(meta.nested).path # "fmt" THEN FmtErr(ProperFmtSyntax(trait_attr))
    ELSE FmtOfPlaceholders(trait_attr, meta, outer_enum, Head(meta.nested).str,
                           parse_fmt_string(Head(meta.nested).str))

\* State::get_matcher: the bindings of the destructuring pattern
get_matcher(fields) ==
    IF fields.shape = "Unit" THEN [shape |-> "Unit", bindings |-> <<>>]
    ELSE IF fields.shape = "Unnamed"
    THEN [shape |-> "Unnamed",
          bindings |-> [n \in 1..Len(fields.list) |-> "_" \o ToString(n - 1)]]
    ELSE [shape |-> "Named",
          bindings |-> [n \in 1..Len(fields.list) |-> fields.list[n].ident]]

MoreThanOneFieldMsg ==
    "Cannot automatically infer format for types with more than 1 field"

\* infer_fmt delegating to the first field whatever the number of fields
infer_fmt_first_field(trait_path, fields, name) ==
    IF fields.shape = "Unit" THEN FmtOk(WriteStrBody(name), FALSE)
    ELSE IF fields.list = <<>> THEN FmtOk(WriteStrBody(name), FALSE)
    ELSE IF fields.list[1].ident # ""
    THEN FmtOk(DelegateBody(trait_path, fields.list[1].ident), FALSE)
    ELSE FmtOk(DelegateBody(trait_path, "_0"), FALSE)

\* State::infer_fmt
infer_fmt(trait_path, fields, name) ==
    IF fields.shape = "Unit" THEN FmtOk(WriteStrBody(name), FALSE)
    ELSE IF fields.list = <<>> THEN FmtOk(WriteStrBody(name), FALSE)
    ELSE IF Len(fields.list) > 1 THEN FmtErr(MoreThanOneFieldMsg)
    ELSE IF fields.list[1].ident # ""
    THEN FmtOk(DelegateBody(trait_path, fields.list[1].ident), FALSE)
    ELSE FmtOk(DelegateBody(trait_path, "_0"), FALSE)

\* HashMap<syn::Type, HashSet<syn::TraitBound>> as a set of Bound, or a panic
BoundsOk(bounds) == [status |-> "Ok", msg |-> "", bounds |-> bounds]

BoundsErr(msg) == [status |-> "Err", msg |-> msg, bounds |-> {}]

BoundsPanic(msg) == [status |-> "Panic", msg |-> msg, bounds |-> {}]

\* State::infer_type_params_bounds
infer_type_params_bounds(trait_attr, type_params, fields) ==
    IF type_params = {} THEN BoundsOk({})
    ELSE IF fields.shape = "Unit" THEN BoundsOk({})
    ELSE IF fields.list = <<>> THEN BoundsOk({})
    ELSE LET ty == get_if_type_parameter_used_in_type(type_params, fields.list[1].ty) IN
         IF ty = "" THEN BoundsOk({})
         ELSE IF attribute_name_to_trait_name(trait_attr) = "!"
         THEN BoundsPanic("internal error: entered unreachable code")
         ELSE BoundsOk({Bound(ty, trait_name_to_trait_bound(
                                      attribute_name_to_trait_name(trait_attr)))})

\* the name a field is bound to: its ident, or _i for the i-th unnamed field
FieldName(fields, i) ==
    IF fields.list[i].ident # "" THEN fields.list[i].ident ELSE "_" \o ToString(i - 1)

\* the explicit arguments that read as a path, in order
PathArgs(nested) ==
    SelectSeq(SubSeq(nested, 2, Len(nested)),
              LAMBDA arg : arg.kind = "Path" \/ arg.expr \in PathExprs)

\* FmtArgPath with an index that counts the arguments reading as a path only
FmtArgPathAmongPaths(nested, i) ==
    IF i + 1 > Len(PathArgs(nested)) THEN ""
    ELSE IF PathArgs(nested)[i + 1].kind = "Path" THEN PathArgs(nested)[i + 1].path
    ELSE PathArgs(nested)[i + 1].expr

\* the path the i-th explicit argument (0-based) reads as, "" when it is no path
FmtArgPath(nested, i) ==
    IF i + 2 > Len(nested) THEN ""
    ELSE IF nested[i + 2].kind = "Path" THEN nested[i + 2].path
    ELSE IF nested[i + 2].expr \in PathExprs THEN nested[i + 2].expr ELSE ""

\* what a placeholder refers to: the path of its explicit argument, or its name
ArgOf(nested, pl) ==
    IF pl.arg.tag = "Positional" THEN FmtArgPath(nested, pl.arg.index) ELSE pl.arg.name

\* the fields whose type uses a type parameter
FieldsUsingTypeParams(type_params, fields) ==
    {i \in DOMAIN fields.list :
        get_if_type_parameter_used_in_type(type_params, fields.list[i].ty) # ""}

\* PlaceholderBounds with the trait of the first placeholder for every placeholder
PlaceholderBoundsFirstTrait(type_params, fields, nested, phs) ==
    {Bound(get_if_type_parameter_used_in_type(type_params, fields.list[x[1]].ty),
           trait_name_to_trait_bound(phs[1].trait_name)) :
       x \in {y \in FieldsUsingTypeParams(type_params, fields) \X DOMAIN phs :
                 FieldName(fields, y[1]) = ArgOf(nested, phs[y[2]])}}

\* the bounds the placeholders phs put on the types of the fields they display
PlaceholderBounds(type_params, fields, nested, phs) ==
    {Bound(get_if_type_parameter_used_in_type(type_params, fields.list[x[1]].ty),
           trait_name_to_trait_bound(phs[x[2]].trait_name)) :
       x \in {y \in FieldsUsingTypeParams(type_params, fields) \X DOMAIN phs :
                 FieldName(fields, y[1]) = ArgOf(nested, phs[y[2]])}}

\* State::get_used_type_params_bounds
get_used_type_params_bounds(type_params, fields, meta) ==
    IF type_params = {} \/ FieldsUsingTypeParams(type_params, fields) = {} THEN {}
    ELSE PlaceholderBounds(type_params, fields, meta.nested,
                           parse_fmt_string(Head(meta.nested).str))

RECURSIVE BoundsLoop(_, _, _, _)
\* BoundsLoop without the check that the parameter is declared on the item
BoundsLoopAnyParameter(type_params, params, i, bounds) ==
    IF i > Len(params) THEN BoundsOk(bounds)
    ELSE LET type_param == params[i]
             notTrait == {k \in DOMAIN type_param.bounds :
                             type_param.bounds[k].kind # "Trait"}
             hrtb == {k \in DOMAIN type_param.bounds : type_param.bounds[k].hrtb}
             bad == notTrait \cup hrtb
             first == CHOOSE k \in bad : \A j \in bad : k <= j
             added == bounds \cup {Bound(type_param.ident, type_param.bounds[k].path) :
                                      k \in DOMAIN type_param.bounds} IN
         IF type_param.kind # "Type" THEN BoundsErr("Only trait bounds allowed")
         ELSE IF type_param.attrs THEN BoundsErr("Attributes aren't allowed")
         ELSE IF type_param.default
         THEN BoundsErr("Default type parameters aren't allowed")
         ELSE IF bad # {}
         THEN IF first \in notTrait THEN BoundsErr("Only trait bounds allowed")
              ELSE BoundsErr("Higher-rank trait bounds aren't allowed")
         ELSE IF {b \in added : b.ty = type_param.ident} = {}
         THEN BoundsErr("No bounds specified for type parameter " \o type_param.ident)
         ELSE BoundsLoop(type_params, params, i + 1, added)

\* the for loop of parse_meta_bounds over the generic parameters
BoundsLoop(type_params, params, i, bounds) ==
    IF i > Len(params) THEN BoundsOk(bounds)
    ELSE LET type_param == params[i]
             notTrait == {k \in DOMAIN type_param.bounds :
                             type_param.bounds[k].kind # "Trait"}
             hrtb == {k \in DOMAIN type_param.bounds : type_param.bounds[k].hrtb}
             bad == notTrait \cup hrtb
             first == CHOOSE k \in bad : \A j \in bad : k <= j
             added == bounds \cup {Bound(type_param.ident, type_param.bounds[k].path) :
                                      k \in DOMAIN type_param.bounds} IN
         IF type_param.kind # "Type" THEN BoundsErr("Only trait bounds allowed")
         ELSE IF type_param.ident \notin type_params
         THEN BoundsErr("Unknown generic type argument specified")
         ELSE IF type_param.attrs THEN BoundsErr("Attributes aren't allowed")
         ELSE IF type_param.default
         THEN BoundsErr("Default type parameters aren't allowed")
         ELSE IF bad # {}
         THEN IF first \in notTrait THEN BoundsErr("Only trait bounds allowed")
              ELSE BoundsErr("Higher-rank trait bounds aren't allowed")
         ELSE IF {b \in added : b.ty = type_param.ident} = {}
         THEN BoundsErr("No bounds specified for type parameter " \o type_param.ident)
         ELSE BoundsLoop(type_params, params, i + 1, added)

\* State::parse_meta_bounds
parse_meta_bounds(type_params, generics) ==
    IF generics.syntax # "ok" THEN BoundsErr("syn: cannot parse the bounds")
    ELSE IF generics.params = <<>> THEN BoundsErr("No bounds specified")
    ELSE BoundsLoop(type_params, generics.params, 1, {})

(***************************************************************************)
(* State::get_match_arms_and_extra_bounds and expand.                      *)
(***************************************************************************)
\* the State built by expand
State(trait_path, trait_attr, input) ==
    [trait_path |-> trait_path, trait_attr |-> trait_attr, input |-> input,
     type_params |-> input.type_params]

\* one match arm: Self::#v_name #matcher => #body, or _ => #body; with `outer`
\* set, the body is wrapped in _derive_more_DisplayAs and written through the
\* outer format string
Arm(pattern, matcher, body, outer) ==
    [pattern |-> pattern, matcher |-> matcher, body |-> body, outer |-> outer]

NoMatcher == [shape |-> "Unit", bindings |-> <<>>]

\* Result<ParseResult>, or the panic of the generator
ResultOk(arms, bounds, requires_helper) ==
    [status |-> "Ok", msg |-> "", arms |-> arms, bounds |-> bounds,
     requires_helper |-> requires_helper]

ResultErr(msg) ==
    [status |-> "Err", msg |-> msg, arms |-> <<>>, bounds |-> {},
     requires_helper |-> FALSE]

ResultPanic(msg) ==
    [status |-> "Panic", msg |-> msg, arms |-> <<>>, bounds |-> {},
     requires_helper |-> FALSE]

\* a failure handed on by the ? operator (or a panic unwinding)
Failure(r) == IF r.status = "Panic" THEN ResultPanic(r.msg) ELSE ResultErr(r.msg)

FmtOnVariantMsg ==
    "fmt cannot be used on variant when the whole enum has a format string without a placeholder, maybe you want to add a placeholder?"

NoUnionInferenceMsg == "Cannot automatically infer format for unions"

\* the inferred body with the inferred bounds
WithInferredBounds(body, inferred) ==
    IF inferred.status # "Ok" THEN Failure(inferred)
    ELSE ResultOk(<<body>>, inferred.bounds, FALSE)

\* no fmt attribute: the body infer_fmt gave, and the inferred bounds
InferredBody(st, fields, with_bounds, fmt) ==
    IF fmt.status # "Ok" THEN Failure(fmt)
    ELSE IF ~with_bounds THEN ResultOk(<<fmt.body>>, {}, FALSE)
    ELSE WithInferredBounds(fmt.body,
                            infer_type_params_bounds(st.trait_attr, st.type_params,
                                                     fields))

\* a fmt attribute: the body parse_meta_fmt gave, and the bounds of its placeholders
ParsedBody(st, fields, meta, with_bounds, fmt) ==
    IF fmt.status # "Ok" THEN Failure(fmt)
    ELSE ResultOk(<<fmt.body>>,
                  IF with_bounds
                  THEN get_used_type_params_bounds(st.type_params, fields, meta)
                  ELSE {},
                  FALSE)

\* the body and bounds, given what find_meta found
FoundBody(st, fields, name, with_bounds, found) ==
    IF found.status # "Ok" THEN Failure(found)
    ELSE IF found.meta # NoMeta
    THEN ParsedBody(st, fields, found.meta, with_bounds,
                    parse_meta_fmt(st.trait_attr, found.meta, FALSE))
    ELSE InferredBody(st, fields, with_bounds, infer_fmt(st.trait_path, fields, name))

\* the body and bounds of a struct or of one variant: its own fmt attribute if
\* it has one, the inferred body otherwise
ShapeBody(st, attrs, fields, name, with_bounds) ==
    FoundBody(st, fields, name, with_bounds, find_meta(st.trait_attr, attrs, "fmt"))

\* NoVariantFmt without the lookup on the variants
NoVariantFmtUnread(st, variants, i) == ResultOk(<<>>, {}, FALSE)

RECURSIVE NoVariantFmt(_, _, _)
\* one variant of the try_for_each, given what find_meta found on it
NoVariantFmtAfter(st, variants, i, found) ==
    IF found.status # "Ok" THEN Failure(found)
    ELSE IF found.meta # NoMeta THEN ResultErr(FmtOnVariantMsg)
    ELSE NoVariantFmt(st, variants, i + 1)

\* the try_for_each of the no-placeholder affix: no variant may carry fmt
NoVariantFmt(st, variants, i) ==
    IF i > Len(variants) THEN ResultOk(<<>>, {}, FALSE)
    ELSE NoVariantFmtAfter(st, variants, i,
                           find_meta(st.trait_attr, variants[i].attrs, "fmt"))

RECURSIVE VariantArms(_, _, _, _, _, _)
\* VariantArmsAfter writing the body of the variant without the wrapper
VariantArmsUnwrapped(st, variants, i, outer, arms, bounds, r) ==
    IF r.status # "Ok" THEN r
    ELSE VariantArms(st, variants, i + 1, outer,
                     Append(arms, Arm(variants[i].ident, get_matcher(variants[i].fields),
                                      r.arms[1], <<>>)),
                     bounds \cup r.bounds)

\* VariantArmsAfter keeping the bounds of the last variant only
VariantArmsLastBounds(st, variants, i, outer, arms, bounds, r) ==
    IF r.status # "Ok" THEN r
    ELSE VariantArms(st, variants, i + 1, outer,
                     Append(arms, Arm(variants[i].ident, get_matcher(variants[i].fields),
                                      r.arms[1], outer)),
                     r.bounds)

\* one step of the try_fold: the arm of variant v with the body and bounds r
VariantArmsAfter(st, variants, i, outer, arms, bounds, r) ==
    IF r.status # "Ok" THEN r
    ELSE VariantArms(st, variants, i + 1, outer,
                     Append(arms, Arm(variants[i].ident, get_matcher(variants[i].fields),
                                      r.arms[1], outer)),
                     bounds \cup r.bounds)

\* VariantArms collecting the bounds of the variants under an affix as well
VariantArmsBounded(st, variants, i, outer, arms, bounds) ==
    IF i > Len(variants) THEN ResultOk(arms, bounds, outer # <<>>)
    ELSE VariantArmsAfter(st, variants, i, outer, arms, bounds,
                          ShapeBody(st, variants[i].attrs, variants[i].fields,
                                    variants[i].ident, TRUE))

\* the try_fold over the variants, with (outer # <<>>) or without the affix
VariantArms(st, variants, i, outer, arms, bounds) ==
    IF i > Len(variants) THEN ResultOk(arms, bounds, outer # <<>>)
    ELSE VariantArmsAfter(st, variants, i, outer, arms, bounds,
                          ShapeBody(st, variants[i].attrs, variants[i].fields,
                                    variants[i].ident, outer = <<>>))

\* the single arm _ => body
WildcardArm(body) == ResultOk(<<Arm("_", NoMatcher, body, <<>>)>>, {}, FALSE)

\* the affix without placeholder, after the variants were checked
AffixOnly(body, checked) ==
    IF checked.status # "Ok" THEN checked ELSE WildcardArm(body)

\* an enum with an outer fmt attribute, parsed as fmt
EnumArmsWithFmt(st, fmt) ==
    IF fmt.status # "Ok" THEN Failure(fmt)
    ELSE IF ~fmt.flag THEN AffixOnly(fmt.body, NoVariantFmt(st, st.input.variants, 1))
    ELSE VariantArms(st, st.input.variants, 1, fmt.body.fmt, <<>>, {})

\* syn::Data::Enum
EnumArms(st, found) ==
    IF found.status # "Ok" THEN Failure(found)
    ELSE IF found.meta = NoMeta THEN VariantArms(st, st.input.variants, 1, <<>>, <<>>, {})
    ELSE EnumArmsWithFmt(st, parse_meta_fmt(st.trait_attr, found.meta, TRUE))

\* syn::Data::Struct
StructArms(st, r) ==
    IF r.status # "Ok" THEN r
    ELSE ResultOk(<<Arm(st.input.ident, get_matcher(st.input.fields), r.arms[1], <<>>)>>,
                  r.bounds, FALSE)

\* a union with a fmt attribute, parsed as fmt
UnionArmsWithFmt(fmt) ==
    IF fmt.status # "Ok" THEN Failure(fmt) ELSE WildcardArm(fmt.body)

\* UnionArms writing the name of a union without fmt attribute
UnionArmsInferred(st, found) ==
    IF found.status # "Ok" THEN Failure(found)
    ELSE IF found.meta = NoMeta THEN WildcardArm(WriteStrBody(st.input.ident))
    ELSE UnionArmsWithFmt(parse_meta_fmt(st.trait_attr, found.meta, FALSE))

\* syn::Data::Union
UnionArms(st, found) ==
    IF found.status # "Ok" THEN Failure(found)
    ELSE IF found.meta = NoMeta THEN ResultErr(NoUnionInferenceMsg)
    ELSE UnionArmsWithFmt(parse_meta_fmt(st.trait_attr, found.meta, FALSE))

\* the match on self.input.data
MatchArms(st) ==
    IF st.input.kind = "enum"
    THEN EnumArms(st, find_meta(st.trait_attr, st.input.attrs, "fmt"))
    ELSE IF st.input.kind = "struct"
    THEN StructArms(st, ShapeBody(st, st.input.attrs, st.input.fields, st.input.ident,
                                  TRUE))
    ELSE UnionArms(st, find_meta(st.trait_attr, st.input.attrs, "fmt"))

\* WithExtraBounds with the bounds of the bound attribute in place of the others
WithExtraBoundsOnly(result, extra) ==
    IF extra.status # "Ok" THEN Failure(extra)
    ELSE [result EXCEPT !.bounds = extra.bounds]

\* the result with the bounds of the bound attribute added
WithExtraBounds(result, extra) ==
    IF extra.status # "Ok" THEN Failure(extra)
    ELSE [result EXCEPT !.bounds = @ \cup extra.bounds]

\* the bound attribute found on the item, checked and parsed
FoundExtraBounds(st, result, found) ==
    IF found.status # "Ok" THEN Failure(found)
    ELSE IF found.meta = NoMeta THEN result
    ELSE IF found.meta.kind # "List" THEN ResultErr(ProperBoundSyntax(st.trait_attr))
    ELSE IF Len(found.meta.nested) # 1 THEN ResultErr(ProperBoundSyntax(st.trait_attr))
    ELSE IF found.meta.nested[1].kind # "NameValue"
    THEN ResultErr(ProperBoundSyntax(st.trait_attr))
    ELSE IF found.meta.nested[1].lit # "Str"
    THEN ResultErr(ProperBoundSyntax(st.trait_attr))
    ELSE WithExtraBounds(result,
                         parse_meta_bounds(st.type_params, found.meta.nested[1].generics))

\* ExtraBounds without the lookup of the bound attribute
ExtraBoundsUnread(st, result) == result

\* the bounds of the item-level bound attribute, added to the result
ExtraBounds(st, result) ==
    FoundExtraBounds(st, result, find_meta(st.trait_attr, st.input.attrs, "bound"))

\* the second half of get_match_arms_and_extra_bounds, reached when the arms are Ok
ArmsThenBounds(st, result) ==
    IF result.status # "Ok" THEN result ELSE ExtraBounds(st, result)

\* State::get_match_arms_and_extra_bounds
get_match_arms_and_extra_bounds(st) == ArmsThenBounds(st, MatchArms(st))

\* Result<TokenStream> of expand, or the panic of the generator
\* an impl block that always carries the helper struct
ExpandOkWithHelper(trait_path, name, arms, where_bounds, helper_struct) ==
    [status |-> "Ok", msg |-> "", trait_path |-> trait_path, name |-> name,
     arms |-> arms, where_bounds |-> where_bounds, helper_struct |-> TRUE]

ExpandOk(trait_path, name, arms, where_bounds, helper_struct) ==
    [status |-> "Ok", msg |-> "", trait_path |-> trait_path, name |-> name,
     arms |-> arms, where_bounds |-> where_bounds, helper_struct |-> helper_struct]

ExpandFailed(status, msg) ==
    [status |-> status, msg |-> msg, trait_path |-> "", name |-> "", arms |-> <<>>,
     where_bounds |-> {}, helper_struct |-> FALSE]

\* the impl block expand generates from the ParseResult r, or its failure
Generated(trait_path, ident, r) ==
    IF r.status # "Ok" THEN ExpandFailed(r.status, r.msg)
    ELSE ExpandOk(trait_path, ident, r.arms, r.bounds, r.requires_helper)

\* expand once the trait name is trimmed
ExpandTrait(input, name) ==
    IF trait_name_to_attribute_name(name) = "!" THEN ExpandFailed("Panic", "not implemented")
    ELSE Generated("::core::fmt::" \o name, input.ident,
                   get_match_arms_and_extra_bounds(
                       State("::core::fmt::" \o name,
                             trait_name_to_attribute_name(name), input)))

\* expand
expand(input, derive_name) == ExpandTrait(input, Join(TrimCustom(derive_name)))

(***************************************************************************)
(* The derive at work: a declaration is written down piece by piece (item  *)
(* attributes, variants, their attributes, fields, field attributes) and   *)
(* expand is called on it for one of the derive names.                     *)
(***************************************************************************)
FmtTwo == <<"{", "}", "{", "}">>

FmtNamed == <<"{", "a", "}">>

FmtIndexOne == <<"{", "1", "}">>

FmtIndexZero == <<"{", "0", ":", "?", "}">>

\* the attributes put on an item
ItemAttrForms ==
    {AttrFmt("display", FmtLiteral, <<>>),
     AttrFmt("display", FmtOne, <<>>),
     AttrFmt("display", FmtTwo, <<>>),
     AttrFmt("display", FmtNamed, <<>>),
     AttrFmt("display", FmtIndexOne, <<>>),
     AttrFmt("display", FmtIndexZero, <<>>),
     AttrFmt("display", FmtOne, <<NestedPath("_0")>>),
     AttrFmt("display", FmtLiteral, <<NestedLit("a")>>),
     AttrFmt("display", FmtTwo, <<NestedPath("_0"), NestedLit("(")>>),
     AttrBound("display", BoundSource, BoundT),
     Attribute("display", MetaList(<<>>)),
     Attribute("doc", MetaNameValue)}

\* the attributes put on a variant
VariantAttrForms ==
    {AttrFmt("display", FmtLiteral, <<>>),
     AttrFmt("display", FmtOne, <<NestedPath("_0")>>),
     AttrBound("display", BoundSource, BoundT),
     Attribute("display", MetaList(<<NestedPath("foo")>>))}

\* the attributes put on a field
FieldAttrForms == {AttrBound("display", BoundSource, BoundT)}

FieldTypes == {TypeT, TypeU32}

FieldIdents == <<"a", "b", "c", "d", "e", "f", "g", "h">>

Traits ==
    {"Display", "Debug", "Binary", "Octal", "LowerHex", "UpperHex", "LowerExp",
     "UpperExp", "Pointer"}

\* the names the derives go by: Display .. Pointer, DisplayCustom .. PointerCustom
DeriveNames == {<<t>> : t \in Traits} \cup {<<t, "Custom">> : t \in Traits}

RECURSIVE AttrCount(_)
\* the number of attributes on the fields of a list
AttrCount(list) ==
    IF list = <<>> THEN 0 ELSE Len(Head(list).attrs) + AttrCount(Tail(list))

FieldsSize(fields) == Len(fields.list) + AttrCount(fields.list)

RECURSIVE VariantsSize(_)
VariantsSize(variants) ==
    IF variants = <<>> THEN 0
    ELSE 1 + Len(Head(variants).attrs) + FieldsSize(Head(variants).fields)
         + VariantsSize(Tail(variants))

\* the number of pieces a declaration is made of
Size(d) == Len(d.attrs) + FieldsSize(d.fields) + VariantsSize(d.variants)

Declaration(kind, ident, type_params, shape) ==
    [kind |-> kind, ident |-> ident, attrs |-> <<>>, type_params |-> type_params,
     fields |-> Fields(shape, <<>>), variants |-> <<>>]

InitExpand ==
    /\ ParserIdle
    /\ \E tp \in {{}, {"T"}} :
          \/ \E shape \in {"Unit", "Unnamed", "Named"} :
                decl = Declaration("struct", "S", tp, shape)
          \/ decl = Declaration("enum", "E", tp, "Unit")
          \/ decl = Declaration("union", "U", tp, "Named")
    /\ lookup = <<>>
    /\ output = <<>>
    /\ epc = "build"

\* the declaration grows by one piece
Grow(d) ==
    /\ epc = "build"
    /\ Size(decl) < MaxSize
    /\ decl' = d
    /\ UNCHANGED <<lookup, output, epc>>
    /\ UNCHANGED parseVars

AddItemAttr == \E a \in ItemAttrForms : Grow([decl EXCEPT !.attrs = Append(@, a)])

AddVariant ==
    /\ decl.kind = "enum"
    /\ \E shape \in {"Unit", "Unnamed", "Named"} :
          Grow([decl EXCEPT !.variants =
                    Append(@, Variant("V" \o ToString(Len(decl.variants) + 1), <<>>,
                                      Fields(shape, <<>>)))])

AddVariantAttr ==
    /\ decl.variants # <<>>
    /\ \E a \in VariantAttrForms :
          Grow([decl EXCEPT !.variants[Len(decl.variants)].attrs = Append(@, a)])

\* fields with one more field of type ty
WithField(fields, ty) ==
    [fields EXCEPT !.list =
        Append(@, Field(IF fields.shape = "Named" THEN FieldIdents[Len(fields.list) + 1]
                        ELSE "", ty, <<>>))]

\* fields with one more attribute on the last field
WithFieldAttr(fields, a) ==
    [fields EXCEPT !.list[Len(fields.list)].attrs = Append(@, a)]

\* the fields that are still being written: the last variant's, or the item's
OpenFields ==
    IF decl.kind = "enum"
    THEN IF decl.variants = <<>> THEN Fields("Unit", <<>>)
         ELSE decl.variants[Len(decl.variants)].fields
    ELSE decl.fields

WithOpenFields(fields) ==
    IF decl.kind = "enum"
    THEN [decl EXCEPT !.variants[Len(decl.variants)].fields = fields]
    ELSE [decl EXCEPT !.fields = fields]

AddField ==
    /\ OpenFields.shape # "Unit"
    /\ \E ty \in FieldTypes : Grow(WithOpenFields(WithField(OpenFields, ty)))

AddFieldAttr ==
    /\ OpenFields.list # <<>>
    /\ \E a \in FieldAttrForms : Grow(WithOpenFields(WithFieldAttr(OpenFields, a)))

\* the derives a written declaration is expanded for: the one whose namespace
\* the attributes are in, the one the table of trait names lacks, and one of
\* another namespace under its Custom name
ExpandNames == {<<"Display">>, <<"Debug">>, <<"LowerHex", "Custom">>}

\* one call of expand on the declaration, for the derive called name
ExpandFor(name) ==
    /\ epc = "build"
    /\ output' = [derive |-> name, result |-> expand(decl, name)]
    /\ epc' = "expanded"
    /\ UNCHANGED <<decl, lookup>>
    /\ UNCHANGED parseVars

Expand == \E name \in ExpandNames : ExpandFor(name)

NextExpand ==
    \/ AddItemAttr
    \/ AddVariant
    \/ AddVariantAttr
    \/ AddField
    \/ AddFieldAttr
    \/ FindMeta
    \/ Expand

SpecExpand == InitExpand /\ [][NextExpand]_vars

(***************************************************************************)
(* Every derive of the family on structs without item attributes: the      *)
(* fields are written one by one and expand is called for any of the       *)
(* eighteen derive names.                                                  *)
(***************************************************************************)
InitDerive ==
    /\ ParserIdle
    /\ \E tp \in {{}, {"T"}}, shape \in {"Unit", "Unnamed", "Named"} :
          decl = Declaration("struct", "S", tp, shape)
    /\ lookup = <<>>
    /\ output = <<>>
    /\ epc = "build"

Derive == \E name \in DeriveNames : ExpandFor(name)

NextDerive == AddField \/ AddFieldAttr \/ Derive

SpecDerive == InitDerive /\ [][NextDerive]_vars

(***************************************************************************)
(* The shapes of a declaration: structs, enums with several variants and   *)
(* unions of up to MaxShape pieces, written with a small choice of         *)
(* attributes (a literal, a one-placeholder and a named-placeholder fmt, a *)
(* bound, and one attribute find_meta rejects) and expanded for Display    *)
(* and Debug.                                                              *)
(***************************************************************************)
MaxShape == 5

FmtNamedDebug == <<"{", "a", ":", "?", "}">>

\* #[display(fmt = "ok")], #[display(fmt = "{}")], #[display(fmt = "{1}")],
\* #[display(bound = "T: D")], #[display()]
ShapeItemAttrForms ==
    {AttrFmt("display", FmtLiteral, <<>>),
     AttrFmt("display", FmtOne, <<>>),
     AttrFmt("display", FmtIndexOne, <<>>),
     AttrBound("display", BoundSource, BoundT),
     Attribute("display", MetaList(<<>>))}

\* #[display(fmt = "ok")], #[display(fmt = "{a:?}")], #[display(foo)]
ShapeVariantAttrForms ==
    {AttrFmt("display", FmtLiteral, <<>>),
     AttrFmt("display", FmtNamedDebug, <<>>),
     Attribute("display", MetaList(<<NestedPath("foo")>>))}

ShapeNames == {<<"Display">>, <<"Debug">>}

InitShapes ==
    /\ ParserIdle
    /\ \/ \E shape \in {"Unit", "Unnamed", "Named"} :
             decl = Declaration("struct", "S", {"T"}, shape)
       \/ decl = Declaration("enum", "E", {"T"}, "Unit")
       \/ decl = Declaration("union", "U", {"T"}, "Named")
    /\ lookup = <<>>
    /\ output = <<>>
    /\ epc = "build"

\* the declaration grows by one piece, up to MaxShape pieces
GrowShape(d) ==
    /\ epc = "build"
    /\ Size(decl) < MaxShape
    /\ decl' = d
    /\ UNCHANGED <<lookup, output, epc>>
    /\ UNCHANGED parseVars

ShapeItemAttr ==
    \E a \in ShapeItemAttrForms : GrowShape([decl EXCEPT !.attrs = Append(@, a)])

ShapeVariant ==
    /\ decl.kind = "enum"
    /\ \E shape \in {"Unit", "Unnamed", "Named"} :
          GrowShape([decl EXCEPT !.variants =
                         Append(@, Variant("V" \o ToString(Len(decl.variants) + 1),
                                           <<>>, Fields(shape, <<>>)))])

ShapeVariantAttr ==
    /\ decl.variants # <<>>
    /\ \E a \in ShapeVariantAttrForms :
          GrowShape([decl EXCEPT !.variants[Len(decl.variants)].attrs = Append(@, a)])

ShapeField ==
    /\ OpenFields.shape # "Unit"
    /\ \E ty \in FieldTypes : GrowShape(WithOpenFields(WithField(OpenFields, ty)))

ExpandShape == \E name \in ShapeNames : ExpandFor(name)

NextShapes ==
    \/ ShapeItemAttr
    \/ ShapeVariant
    \/ ShapeVariantAttr
    \/ ShapeField
    \/ ExpandShape

SpecShapes == InitShapes /\ [][NextShapes]_vars

(***************************************************************************)
(* State::get_used_type_params_bounds on its own: the fields of a struct   *)
(* or variant and its fmt attribute, written piece by piece (a field, an   *)
(* explicit argument, a placeholder), of up to MaxUsed pieces.             *)
(***************************************************************************)
MaxUsed == 4

TypeU == Type("U", {"U"}, "")

UsedFieldTypes == {TypeT, TypeU, TypeU32, TypeVecT}

\* the explicit arguments a, _1, "b" and "a.len()"
UsedArgForms ==
    {NestedPath("a"), NestedPath("_1"), NestedLit("b"), NestedLit("a.len()")}

\* the placeholders {}, {a}, {a:?}, {1:?} and {_0:e}
UsedPlaceholderForms ==
    {<<"{", "}">>, <<"{", "a", "}">>, <<"{", "a", ":", "?", "}">>,
     <<"{", "1", ":", "?", "}">>, <<"{", "_", "0", ":", "e", "}">>}

\* the fmt attribute of the declaration
UsedMeta == decl.attrs[1].meta

\* the number of placeholders written: each form opens one brace
UsedPlaceholders == Cardinality({i \in DOMAIN Head(UsedMeta.nested).str :
                                    Head(UsedMeta.nested).str[i] = "{"})

UsedSize == Len(decl.fields.list) + (Len(UsedMeta.nested) - 1) + UsedPlaceholders

InitUsed ==
    /\ ParserIdle
    /\ \E tp \in {{}, {"T", "U"}}, shape \in {"Unnamed", "Named"} :
          decl = [Declaration("struct", "S", tp, shape)
                    EXCEPT !.attrs = <<AttrFmt("display", <<>>, <<>>)>>]
    /\ lookup = <<>>
    /\ output = <<>>
    /\ epc = "build"

GrowUsed(d) ==
    /\ epc = "build"
    /\ UsedSize < MaxUsed
    /\ decl' = d
    /\ UNCHANGED <<lookup, output, epc>>
    /\ UNCHANGED parseVars

UsedField == \E ty \in UsedFieldTypes : GrowUsed(WithOpenFields(WithField(OpenFields, ty)))

UsedArg ==
    \E arg \in UsedArgForms :
       GrowUsed([decl EXCEPT !.attrs[1].meta.nested = Append(@, arg)])

UsedPlaceholder ==
    \E pl \in UsedPlaceholderForms :
       GrowUsed([decl EXCEPT !.attrs[1].meta.nested[1].str = @ \o pl])

\* one call of get_used_type_params_bounds on the fields and the attribute
UsedBounds ==
    /\ epc = "build"
    /\ output' = [bounds |-> get_used_type_params_bounds(decl.type_params, decl.fields,
                                                         UsedMeta)]
    /\ epc' = "used"
    /\ UNCHANGED <<decl, lookup>>
    /\ UNCHANGED parseVars

NextUsed ==
    \/ UsedField
    \/ UsedArg
    \/ UsedPlaceholder
    \/ UsedBounds

SpecUsed == InitUsed /\ [][NextUsed]_vars

(***************************************************************************)
(* State::parse_meta_bounds on its own: the bounds literal of an item      *)
(* S<T, U>, as the list of generic parameters syn reads from it, written   *)
(* piece by piece (a parameter, a bound, an attribute, a default), of up   *)
(* to MaxLit pieces; or a literal that is no such list.                    *)
(***************************************************************************)
MaxLit == 4

\* syn::GenericParam
GenericParam(kind, ident) ==
    [kind |-> kind, ident |-> ident, attrs |-> FALSE, default |-> FALSE, bounds |-> <<>>]

\* syn::TypeParamBound
TypeParamBound(kind, path, hrtb) == [kind |-> kind, hrtb |-> hrtb, path |-> path]

\* T, U, V (not declared on the item), 'a, const N: usize
LitParamForms ==
    {GenericParam("Type", "T"), GenericParam("Type", "U"), GenericParam("Type", "V"),
     GenericParam("Lifetime", "'a"), GenericParam("Const", "N")}

\* Display, Debug, 'static, for<'a> From<&'a str>
LitBoundForms ==
    {TypeParamBound("Trait", "Display", FALSE), TypeParamBound("Trait", "Debug", FALSE),
     TypeParamBound("Lifetime", "'static", FALSE),
     TypeParamBound("Trait", "From<&'a str>", TRUE)}

\* the generic parameters of the literal
LitGenerics == decl.attrs[1].meta.nested[1].generics

RECURSIVE LitSize(_)
LitSize(params) ==
    IF params = <<>> THEN 0
    ELSE 1 + Len(Head(params).bounds) + (IF Head(params).attrs THEN 1 ELSE 0)
           + (IF Head(params).default THEN 1 ELSE 0) + LitSize(Tail(params))

\* the item with the bounds literal read as generics
WithLiteral(generics) ==
    [Declaration("struct", "S", {"T", "U"}, "Unit")
       EXCEPT !.attrs = <<AttrBound("display", <<>>, generics)>>]

InitLit ==
    /\ ParserIdle
    /\ decl \in {WithLiteral(Generics(<<>>)),
                 WithLiteral([syntax |-> "bad", params |-> <<>>])}
    /\ lookup = <<>>
    /\ output = <<>>
    /\ epc = "build"

GrowLit(params) ==
    /\ epc = "build"
    /\ LitGenerics.syntax = "ok"
    /\ LitSize(LitGenerics.params) < MaxLit
    /\ decl' = WithLiteral(Generics(params))
    /\ UNCHANGED <<lookup, output, epc>>
    /\ UNCHANGED parseVars

LitParam == \E param \in LitParamForms : GrowLit(Append(LitGenerics.params, param))

LitBound ==
    /\ LitGenerics.params # <<>>
    /\ LitGenerics.params[Len(LitGenerics.params)].kind = "Type"
    /\ \E bound \in LitBoundForms :
          GrowLit([LitGenerics.params EXCEPT ![Len(LitGenerics.params)].bounds =
                      Append(@, bound)])

LitAttr ==
    /\ LitGenerics.params # <<>>
    /\ LitGenerics.params[Len(LitGenerics.params)].kind = "Type"
    /\ ~LitGenerics.params[Len(LitGenerics.params)].attrs
    /\ GrowLit([LitGenerics.params EXCEPT ![Len(LitGenerics.params)].attrs = TRUE])

LitDefault ==
    /\ LitGenerics.params # <<>>
    /\ LitGenerics.params[Len(LitGenerics.params)].kind = "Type"
    /\ ~LitGenerics.params[Len(LitGenerics.params)].default
    /\ GrowLit([LitGenerics.params EXCEPT ![Len(LitGenerics.params)].default = TRUE])

\* one call of parse_meta_bounds on the literal
ParseMetaBounds ==
    /\ epc = "build"
    /\ output' = [result |-> parse_meta_bounds(decl.type_params, LitGenerics)]
    /\ epc' = "bounds_parsed"
    /\ UNCHANGED <<decl, lookup>>
    /\ UNCHANGED parseVars

NextLit ==
    \/ LitParam
    \/ LitBound
    \/ LitAttr
    \/ LitDefault
    \/ ParseMetaBounds

SpecLit == InitLit /\ [][NextLit]_vars

(***************************************************************************)
(* Two runs of expand on one declaration, with what is emitted in the      *)
(* order it is emitted: the arms and the explicit arguments are sequences  *)
(* of the generator, the where-clause and the name = name bindings are     *)
(* read out of utils::HashMap and utils::HashSet, whose iteration order is *)
(* that of their hasher.                                                   *)
(***************************************************************************)
MaxRun == 3

FmtTwoNamed == <<"{", "a", "}", "{", "b", ":", "?", "}">>

RECURSIVE BucketOrder(_)
\* the elements of a set in the order of their hashes under one hasher state
BucketOrder(S) ==
    IF S = {} THEN <<>>
    ELSE Append(BucketOrder(S \ {CHOOSE x \in S : TRUE}), CHOOSE x \in S : TRUE)

Reversed(seq) == [i \in DOMAIN seq |-> seq[Len(seq) + 1 - i]]

\* the iteration order of a HashMap's keys or a HashSet's elements built with
\* the hasher state `state`
IterationOrder(S, state) ==
    IF state = 0 THEN BucketOrder(S) ELSE Reversed(BucketOrder(S))

\* a hasher state drawn anew for every run, as std's RandomState does
RandomState(run) == run - 1

\* the hasher state of utils::HashMap and utils::HashSet in run number `run`:
\* one fixed state
DeterministicState(run) == 0

\* #(#args),* #(#interpolated_args),*: the bindings in the order of the set
EmittedArm(arm, state) ==
    [arm EXCEPT !.body.named = IterationOrder(@, state)]

\* where #(#ty: #(#bounds)+*),*
EmittedWhere(bounds, keys, state) ==
    [i \in DOMAIN keys |->
        [ty |-> keys[i],
         bounds |-> IterationOrder({b.bound : b \in {c \in bounds : c.ty = keys[i]}},
                                   state)]]

\* the token stream or error of one run whose result is r
Emitted(r, state) ==
    IF r.status # "Ok" THEN [status |-> r.status, msg |-> r.msg]
    ELSE [status |-> "Ok", trait_path |-> r.trait_path, name |-> r.name,
          helper_struct |-> r.helper_struct,
          arms |-> [i \in DOMAIN r.arms |-> EmittedArm(r.arms[i], state)],
          where_clause |-> EmittedWhere(r.where_bounds,
                                        IterationOrder({b.ty : b \in r.where_bounds},
                                                       state),
                                        state)]

InitRuns ==
    /\ ParserIdle
    /\ \/ \E shape \in {"Unit", "Unnamed", "Named"} :
             decl = Declaration("struct", "S", {"T"}, shape)
       \/ decl = Declaration("enum", "E", {"T"}, "Unit")
       \/ decl = Declaration("union", "U", {"T"}, "Named")
       \/ decl = [Declaration("struct", "S", {"T"}, "Named")
                    EXCEPT !.attrs = <<AttrFmt("display", FmtTwoNamed, <<>>)>>]
    /\ lookup = <<>>
    /\ output = <<>>
    /\ epc = "build"

\* the first run of expand on the declaration
RunFirst ==
    /\ epc = "build"
    /\ \E name \in ShapeNames :
          output' = [derive |-> name,
                     runs |-> <<Emitted(expand(decl, name), DeterministicState(1))>>]
    /\ epc' = "run"
    /\ UNCHANGED <<decl, lookup>>
    /\ UNCHANGED parseVars

\* the second run of expand on the same declaration and trait name
RunSecond ==
    /\ epc = "run"
    /\ output' = [output EXCEPT !.runs =
                      Append(@, Emitted(expand(decl, output.derive),
                                        DeterministicState(2)))]
    /\ epc' = "rerun"
    /\ UNCHANGED <<decl, lookup>>
    /\ UNCHANGED parseVars

\* one more piece of the declaration, of up to MaxRun pieces
RunPiece ==
    /\ Size(decl) < MaxRun
    /\ (ShapeItemAttr \/ ShapeVariant \/ ShapeVariantAttr \/ ShapeField)

NextRuns ==
    \/ RunPiece
    \/ RunFirst
    \/ RunSecond

SpecRuns == InitRuns /\ [][NextRuns]_vars

(***************************************************************************)
(* expand on an item with one fmt attribute, on the item (struct, enum,    *)
(* union) or on the one variant of an enum, the attribute written piece by *)
(* piece (a piece of the format string, an explicit argument), of up to    *)
(* MaxFmt pieces.                                                          *)
(***************************************************************************)
MaxFmt == 3

\* the explicit arguments a, "b.len()", "(", x(..) and 5
FmtArgForms ==
    {NestedPath("a"), NestedLit("b.len()"), NestedLit("("), NestedList("x"),
     [NestedLit("5") EXCEPT !.lit = "Int"]}

\* the pieces ok, {}, {1}, {a}, {:b$} and {a:.a$}
FmtPieceForms ==
    {<<"o", "k">>, <<"{", "}">>, <<"{", "1", "}">>, <<"{", "a", "}">>,
     <<"{", ":", "b", "$", "}">>, <<"{", "a", ":", ".", "a", "$", "}">>}

\* the declaration carries its fmt attribute on the item or on its variant
OnVariant == decl.attrs = <<>>

\* the fmt attribute of the declaration
FmtMeta ==
    IF OnVariant THEN decl.variants[1].attrs[1].meta ELSE decl.attrs[1].meta

\* the declaration with meta as its fmt attribute
WithFmtMeta(meta) ==
    IF OnVariant THEN [decl EXCEPT !.variants[1].attrs[1].meta = meta]
    ELSE [decl EXCEPT !.attrs[1].meta = meta]

\* the pieces written: the arguments, and the pieces of the string, each of
\* which opens one brace or is the text ok
FmtSize ==
    (Len(FmtMeta.nested) - 1)
    + Cardinality({i \in DOMAIN Head(FmtMeta.nested).str :
                      Head(FmtMeta.nested).str[i] \in {"{", "k"}})

InitFmt ==
    /\ ParserIdle
    /\ \/ \E kind \in {"struct", "enum", "union"} :
             decl = [Declaration(kind, "S", {}, "Unit")
                       EXCEPT !.attrs = <<AttrFmt("display", <<>>, <<>>)>>]
       \/ decl = [Declaration("enum", "S", {}, "Unit")
                    EXCEPT !.variants =
                       <<Variant("V1", <<AttrFmt("display", <<>>, <<>>)>>,
                                 Fields("Unit", <<>>))>>]
    /\ lookup = <<>>
    /\ output = <<>>
    /\ epc = "build"

GrowFmt(meta) ==
    /\ epc = "build"
    /\ FmtSize < MaxFmt
    /\ decl' = WithFmtMeta(meta)
    /\ UNCHANGED <<lookup, output, epc>>
    /\ UNCHANGED parseVars

FmtPiece ==
    \E piece \in FmtPieceForms : GrowFmt([FmtMeta EXCEPT !.nested[1].str = @ \o piece])

FmtArg == \E arg \in FmtArgForms : GrowFmt([FmtMeta EXCEPT !.nested = Append(@, arg)])

ExpandFmt == ExpandFor(<<"Display">>)

NextFmt ==
    \/ FmtPiece
    \/ FmtArg
    \/ ExpandFmt

SpecFmt == InitFmt /\ [][NextFmt]_vars

(***************************************************************************)
(* The Unwrap derive (impl/src/unwrap.rs): the accessors it generates for  *)
(* an enum of up to MaxUnwrap pieces (variants and their fields), and one  *)
(* call of a generated accessor on a value of the enum.                    *)
(***************************************************************************)
MaxUnwrap == 4

\* the identifiers of the variants, by position
VariantIdents == <<"Foo", "FooBar", "Baz", "QuxQuux", "A", "AbC">>

\* convert_case: Casing::to_case(Case::Snake) on these identifiers
to_case_snake(ident) ==
    IF ident = "Foo" THEN "foo"
    ELSE IF ident = "FooBar" THEN "foo_bar"
    ELSE IF ident = "Baz" THEN "baz"
    ELSE IF ident = "QuxQuux" THEN "qux_quux"
    ELSE IF ident = "A" THEN "a"
    ELSE "ab_c"

\* #[unwrap(ignore)]
IgnoreAttr == Attribute("unwrap", MetaList(<<NestedPath("ignore")>>))

\* utils::State::enabled_variant_data: the variants without #[unwrap(ignore)]
enabled_variant_data(variants) ==
    SelectSeq(variants, LAMBDA v : \A i \in DOMAIN v.attrs : v.attrs[i] # IgnoreAttr)

\* one arm of the match of an accessor: the variant and pattern it matches,
\* and what it does: return the bindings `ret` or panic with msg
MatchArm(variant, pattern, ret, msg) ==
    [variant |-> variant, pattern |-> pattern, ret |-> ret, msg |-> msg]

\* format_ident!("field_{n}") for the n fields of a tuple variant
FieldBindings(fields) == [n \in DOMAIN fields.list |-> "field_" \o ToString(n - 1)]

\* #enum_name::#variant_ident #data_pattern => #ret_value
ReturningArm(variant) ==
    MatchArm(variant.ident,
             IF variant.fields.shape = "Unnamed" THEN FieldBindings(variant.fields)
             ELSE <<>>,
             IF variant.fields.shape = "Unnamed" THEN FieldBindings(variant.fields)
             ELSE <<>>,
             "")

\* concat!("called ", enum, "::", fn, "() on a ", variant, " value"), written
\* here without the quotation marks the source puts around the two names
PanicMessage(enum_name, fn_name, variant_ident) ==
    "called " \o enum_name \o "::" \o fn_name \o "() on a " \o variant_ident
      \o " value"

\* the {..}, (..) or empty pattern of the arm of another variant
RestPattern(fields) ==
    IF fields.shape = "Named" THEN "{..}"
    ELSE IF fields.shape = "Unnamed" THEN "(..)" ELSE ""

\* a panicking arm whose message names the accessor instead of the variant met
PanickingArmNamingAccessor(enum_name, fn_name, variant) ==
    MatchArm(variant.ident, RestPattern(variant.fields), <<>>,
             PanicMessage(enum_name, fn_name, fn_name))

\* #enum_name::#variant_ident #data_pattern => panic!(..)
PanickingArm(enum_name, fn_name, variant) ==
    MatchArm(variant.ident, RestPattern(variant.fields), <<>>,
             PanicMessage(enum_name, fn_name, variant.ident))

\* panicking arms for the other variants that have an accessor of their own
OtherArmsOfEnabled(enum_name, fn_name, variants, variant_ident) ==
    [i \in DOMAIN SelectSeq(enabled_variant_data(variants),
                            LAMBDA v : v.ident # variant_ident) |->
        PanickingArm(enum_name, fn_name,
                     SelectSeq(enabled_variant_data(variants),
                               LAMBDA v : v.ident # variant_ident)[i])]

\* other_arms: the arms of the variants whose identifier is not the accessor's
OtherArms(enum_name, fn_name, variants, variant_ident) ==
    [i \in DOMAIN SelectSeq(variants, LAMBDA v : v.ident # variant_ident) |->
        PanickingArm(enum_name, fn_name,
                     SelectSeq(variants, LAMBDA v : v.ident # variant_ident)[i])]

\* stringify!(variant_ident): the text of the tokens handed to the macro
StringifyVariantIdent(variant) == "variant_ident"

\* the accessor generated for one enabled variant
Func(enum_name, variants, variant) ==
    [fn_name |-> "unwrap_" \o to_case_snake(variant.ident),
     doc |-> "Unwraps this value to the " \o StringifyVariantIdent(variant)
               \o " variant. Panics if this value is of any other type",
     ret_type |-> [n \in DOMAIN variant.fields.list |-> variant.fields.list[n].ty],
     arms |-> <<ReturningArm(variant)>>
                \o OtherArms(enum_name, "unwrap_" \o to_case_snake(variant.ident),
                             variants, variant.ident)]

\* the funcs of the enabled variants
Funcs(input, enabled) ==
    IF \E i \in DOMAIN enabled : enabled[i].fields.shape = "Named"
    THEN [status |-> "Panic", msg |-> "cannot unwrap anonymous records", funcs |-> <<>>]
    ELSE [status |-> "Ok", msg |-> "",
          funcs |-> [i \in DOMAIN enabled |-> Func(input.ident, input.variants,
                                                    enabled[i])]]

\* unwrap::expand
unwrap_expand(input) ==
    IF input.kind # "enum"
    THEN [status |-> "Panic", msg |-> "Unwrap can only be derived for enums",
          funcs |-> <<>>]
    ELSE Funcs(input, enabled_variant_data(input.variants))

\* a value of the enum: its variant and the values of its fields, in order
ValueOf(variant) ==
    [variant |-> variant.ident, shape |-> variant.fields.shape,
     payload |-> [n \in DOMAIN variant.fields.list |->
                     variant.ident \o "." \o ToString(n - 1)]]

\* an arm matches a value of its variant when its pattern fits the shape
Matches(arm, value) ==
    /\ arm.variant = value.variant
    /\ IF arm.msg = "" THEN Len(arm.pattern) = Len(value.payload)
       ELSE arm.pattern = RestPattern([shape |-> value.shape])

\* what an arm does with the value it matched
Outcome(arm, value) ==
    IF arm.msg # "" THEN [kind |-> "panic", msg |-> arm.msg, payload |-> <<>>]
    ELSE [kind |-> "return", msg |-> "", payload |-> value.payload]

\* match self { .. }: the first arm that matches the value
MatchSelf(arms, value) ==
    IF \A i \in DOMAIN arms : ~Matches(arms[i], value)
    THEN [kind |-> "no arm", msg |-> "", payload |-> <<>>]
    ELSE Outcome(arms[CHOOSE i \in DOMAIN arms :
                         /\ Matches(arms[i], value)
                         /\ \A j \in 1..(i - 1) : ~Matches(arms[j], value)],
                 value)

InitUnwrap ==
    /\ ParserIdle
    /\ decl = Declaration("enum", "E", {}, "Unit")
    /\ lookup = <<>>
    /\ output = <<>>
    /\ epc = "build"

GrowUnwrap(d) ==
    /\ epc = "build"
    /\ VariantsSize(d.variants) <= MaxUnwrap
    /\ decl' = d
    /\ UNCHANGED <<lookup, output, epc>>
    /\ UNCHANGED parseVars

UnwrapVariant ==
    /\ Len(decl.variants) < Len(VariantIdents)
    /\ \E shape \in {"Unit", "Unnamed", "Named"}, attrs \in {<<>>, <<IgnoreAttr>>} :
          GrowUnwrap([decl EXCEPT !.variants =
                         Append(@, Variant(VariantIdents[Len(decl.variants) + 1],
                                           attrs, Fields(shape, <<>>)))])

UnwrapField ==
    /\ decl.variants # <<>>
    /\ OpenFields.shape # "Unit"
    /\ GrowUnwrap(WithOpenFields(WithField(OpenFields, TypeU32)))

\* one call of unwrap::expand on the enum
UnwrapExpand ==
    /\ epc = "build"
    /\ output' = [result |-> unwrap_expand(decl)]
    /\ epc' = "unwrapped"
    /\ UNCHANGED <<decl, lookup>>
    /\ UNCHANGED parseVars

\* one call of a generated accessor on a value of the enum
UnwrapCall ==
    /\ epc = "unwrapped"
    /\ \E f \in DOMAIN output.result.funcs, v \in DOMAIN decl.variants :
          output' = [result |-> output.result, func |-> f, self |-> v,
                     outcome |-> MatchSelf(output.result.funcs[f].arms,
                                           ValueOf(decl.variants[v]))]
    /\ epc' = "called"
    /\ UNCHANGED <<decl, lookup>>
    /\ UNCHANGED parseVars

NextUnwrap ==
    \/ UnwrapVariant
    \/ UnwrapField
    \/ UnwrapExpand
    \/ UnwrapCall

SpecUnwrap == InitUnwrap /\ [][NextUnwrap]_vars

(***************************************************************************)
(* The FromStr derive of an enum (impl/src/from_str.rs, enum_from): the    *)
(* match it generates for an enum of up to MaxFromStr pieces, and one call *)
(* of the generated from_str.  Identifiers and strings are sequences of    *)
(* characters.                                                             *)
(***************************************************************************)
MaxFromStr == 3

\* the identifiers a variant can have
FromStrIdents ==
    {<<"a">>, <<"A">>, <<"a", "b">>, <<"A", "b">>, <<"A", "B">>, <<"b", "a">>}

\* the strings from_str is called on: at most two of these characters
FromStrChars == {"a", "A", "b", "B"}
FromStrSources ==
    {<<>>} \cup {<<c>> : c \in FromStrChars}
           \cup {<<c, d>> : c \in FromStrChars, d \in FromStrChars}

\* char::to_lowercase on these characters
LowerChar(c) == IF c = "A" THEN "a" ELSE IF c = "B" THEN "b" ELSE c

\* str::to_lowercase
to_lowercase(s) == [i \in DOMAIN s |-> LowerChar(s[i])]

\* the entry of variants_caseinsensitive under one lowercase name: the
\* identifiers of the variants pushed under it, in declaration order
CaseInsensitiveEntry(variants, canonical) ==
    SelectSeq([i \in DOMAIN variants |-> variants[i].ident],
              LAMBDA ident : to_lowercase(ident) = canonical)

\* arms that are never guarded
EntryCasesUnguarded(canonical, idents) ==
    [i \in DOMAIN idents |->
        [canonical |-> canonical, guarded |-> FALSE,
         variant_str |-> idents[i], variant |-> idents[i]]]

\* the match arms generated for one entry: one unguarded arm for a single
\* variant, one arm guarded by `src == name` per variant otherwise
EntryCases(canonical, idents) ==
    [i \in DOMAIN idents |->
        [canonical |-> canonical, guarded |-> Len(idents) # 1,
         variant_str |-> idents[i], variant |-> idents[i]]]

\* the arms of the entries, in the order the map is iterated in
RECURSIVE Cases(_, _)
Cases(variants, keys) ==
    IF keys = <<>> THEN <<>>
    ELSE EntryCases(Head(keys), CaseInsensitiveEntry(variants, Head(keys)))
           \o Cases(variants, Tail(keys))

\* enum_from
enum_from(input) ==
    IF \E i \in DOMAIN input.variants : input.variants[i].fields.list # <<>>
    THEN [status |-> "Panic", msg |-> "Only enums with no fields can derive(FromStr)",
          err_name |-> "", cases |-> <<>>]
    ELSE [status |-> "Ok", msg |-> "",
          err_name |-> "Parse" \o input.ident \o "Error",
          cases |-> Cases(input.variants,
                          IterationOrder({to_lowercase(input.variants[i].ident) :
                                             i \in DOMAIN input.variants},
                                         DeterministicState(1)))]

\* an arm is taken when the lowercase source is its pattern and its guard,
\* if it has one, holds
CaseTaken(case, src) ==
    /\ case.canonical = to_lowercase(src)
    /\ case.guarded => src = case.variant_str

\* the generated from_str: the first arm taken, the error when there is none
from_str(generated, src) ==
    IF \A i \in DOMAIN generated.cases : ~CaseTaken(generated.cases[i], src)
    THEN [ok |-> FALSE, variant |-> <<>>, err |-> generated.err_name]
    ELSE [ok |-> TRUE,
          variant |-> generated.cases[CHOOSE i \in DOMAIN generated.cases :
                        /\ CaseTaken(generated.cases[i], src)
                        /\ \A j \in 1..(i - 1) : ~CaseTaken(generated.cases[j], src)
                      ].variant,
          err |-> ""]

InitFromStr ==
    /\ ParserIdle
    /\ decl = Declaration("enum", "E", {}, "Unit")
    /\ lookup = <<>>
    /\ output = <<>>
    /\ epc = "build"

GrowFromStr(d) ==
    /\ epc = "build"
    /\ VariantsSize(d.variants) <= MaxFromStr
    /\ decl' = d
    /\ UNCHANGED <<lookup, output, epc>>
    /\ UNCHANGED parseVars

\* one more variant, under an identifier no variant has yet
FromStrVariant ==
    \E ident \in FromStrIdents, shape \in {"Unit", "Unnamed"} :
       /\ \A i \in DOMAIN decl.variants : decl.variants[i].ident # ident
       /\ GrowFromStr([decl EXCEPT !.variants =
                          Append(@, Variant(ident, <<>>, Fields(shape, <<>>)))])

FromStrField ==
    /\ decl.variants # <<>>
    /\ OpenFields.shape # "Unit"
    /\ GrowFromStr(WithOpenFields(WithField(OpenFields, TypeU32)))

\* one call of enum_from on the enum
FromStrExpand ==
    /\ epc = "build"
    /\ output' = [generated |-> enum_from(decl)]
    /\ epc' = "derived"
    /\ UNCHANGED <<decl, lookup>>
    /\ UNCHANGED parseVars

\* one call of the generated from_str
FromStrCall ==
    /\ epc = "derived"
    /\ output.generated.status = "Ok"
    /\ \E src \in FromStrSources :
          output' = [generated |-> output.generated, src |-> src,
                     parsed |-> from_str(output.generated, src)]
    /\ epc' = "parsed"
    /\ UNCHANGED <<decl, lookup>>
    /\ UNCHANGED parseVars

NextFromStr ==
    \/ FromStrVariant
    \/ FromStrField
    \/ FromStrExpand
    \/ FromStrCall

SpecFromStr == InitFromStr /\ [][NextFromStr]_vars

(***************************************************************************)
(* Properties of expand.                                                   *)
(***************************************************************************)
\* the trait the expanded derive is named after
DerivedTrait == output.derive[1]

\* the attribute namespace of the expanded derive
DerivedAttr == trait_name_to_attribute_name(DerivedTrait)

\* the attributes of namespace ns in attrs whose first entry is `k = literal`
Carrying(ns, attrs, k) ==
    {i \in DOMAIN attrs : attrs[i].path = ns /\ CarriesKey(attrs[i], k)}

\* some attribute of namespace ns in attrs is one find_meta rejects
SomeRejected(ns, attrs) ==
    \E i \in DOMAIN attrs : attrs[i].path = ns /\ Rejected(attrs[i])

\* the item attributes of the expanded namespace are one fmt attribute without
\* further arguments, whose string breaks the rule of the affix
AffixMisused ==
    /\ decl.kind = "enum"
    /\ {i \in DOMAIN decl.attrs : decl.attrs[i].path = DerivedAttr}
         = Carrying(DerivedAttr, decl.attrs, "fmt")
    /\ Cardinality(Carrying(DerivedAttr, decl.attrs, "fmt")) = 1
    /\ \A i \in Carrying(DerivedAttr, decl.attrs, "fmt") :
          /\ Len(decl.attrs[i].meta.nested) = 1
          /\ \/ Len(parse_fmt_string(Head(decl.attrs[i].meta.nested).str)) > 1
             \/ /\ Len(parse_fmt_string(Head(decl.attrs[i].meta.nested).str)) = 1
                /\ parse_fmt_string(Head(decl.attrs[i].meta.nested).str)[1].arg
                     # Positional(0)

\* C5: an enum whose item-level fmt attribute has no further arguments and a
\* string with more than one placeholder, or with one placeholder that is not
\* positional argument 0, makes expand return an error with the affix-usage
\* message.
C5_AffixMisuseIsError ==
    (epc = "expanded" /\ AffixMisused)
    => /\ output.result.status = "Err"
       /\ output.result.msg = ExpectedAffixUsage

\* a struct with the type parameter T, exactly one field, of type T, and no
\* attribute on the item
OneFieldOfT ==
    /\ decl.kind = "struct"
    /\ decl.type_params = {"T"}
    /\ decl.attrs = <<>>
    /\ Len(decl.fields.list) = 1
    /\ decl.fields.list[1].ty = TypeT

\* C6: for each of the nine traits, under its plain or its Custom derive name,
\* a generic struct with exactly one field of type T and no fmt attribute
\* expands successfully, with the bound set {T: ::core::fmt::<the trait>}.
C6_InferredBoundIsDerivedTrait ==
    (epc = "expanded" /\ OneFieldOfT)
    => /\ output.result.status = "Ok"
       /\ output.result.where_bounds = {Bound("T", "::core::fmt::" \o DerivedTrait)}

\* C8, as worded: on the item and on each variant, two or more fmt attributes of
\* the namespace make find_meta and expand fail with Too many attributes
\* specified, and a single one is the result of find_meta.
C8_TooManyFmt ==
    /\ (epc = "looked_up" /\ lookup.meta_key = "fmt")
       => /\ Cardinality(Carrying(lookup.trait_attr, lookup.attrs, "fmt")) >= 2
               => lookup.result = MetaErr(TooManyMsg)
          /\ \A i \in Carrying(lookup.trait_attr, lookup.attrs, "fmt") :
                Cardinality(Carrying(lookup.trait_attr, lookup.attrs, "fmt")) = 1
                  => lookup.result = MetaOk(lookup.attrs[i].meta)
    /\ (epc = "expanded"
        /\ \E point \in LookupPoints :
              Cardinality(Carrying(DerivedAttr, AttrsAt(point), "fmt")) >= 2)
       => /\ output.result.status = "Err"
          /\ output.result.msg = TooManyMsg

\* C8: two or more fmt attributes of the namespace on one list make find_meta
\* fail, with Too many attributes specified when no attribute of the namespace
\* on the list is rejected (a rejected one gives its own error); a single fmt
\* attribute on a list without rejected attributes is the result, bound
\* attributes next to it not counting. expand never succeeds when the item or
\* a variant carries two or more, and fails with Too many attributes specified
\* when the item carries them and none of its attributes is rejected.
C8_TooManyFmtAmongWellFormed ==
    /\ (epc = "looked_up" /\ lookup.meta_key = "fmt")
       => /\ Cardinality(Carrying(lookup.trait_attr, lookup.attrs, "fmt")) >= 2
               => /\ lookup.result.status = "Err"
                  /\ ~SomeRejected(lookup.trait_attr, lookup.attrs)
                       => lookup.result = MetaErr(TooManyMsg)
          /\ \A i \in Carrying(lookup.trait_attr, lookup.attrs, "fmt") :
                (/\ Cardinality(Carrying(lookup.trait_attr, lookup.attrs, "fmt")) = 1
                 /\ ~SomeRejected(lookup.trait_attr, lookup.attrs))
                  => lookup.result = MetaOk(lookup.attrs[i].meta)
    /\ epc = "expanded"
       => /\ (\E point \in LookupPoints :
                 Cardinality(Carrying(DerivedAttr, AttrsAt(point), "fmt")) >= 2)
               => output.result.status # "Ok"
          /\ (/\ Cardinality(Carrying(DerivedAttr, decl.attrs, "fmt")) >= 2
              /\ ~SomeRejected(DerivedAttr, decl.attrs))
               => /\ output.result.status = "Err"
                  /\ output.result.msg = TooManyMsg

\* C8 witness: expand fails with Too many attributes specified on an enum one of
\* whose variants carries two fmt attributes
C8_Witness ==
    /\ epc = "expanded"
    /\ decl.kind = "enum"
    /\ \E v \in DOMAIN decl.variants :
          Cardinality(Carrying(DerivedAttr, decl.variants[v].attrs, "fmt")) = 2
    /\ output.result.status = "Err"
    /\ output.result.msg = TooManyMsg

\* C8 witness of the single attribute: fmt is looked up on a list with one fmt
\* and one bound attribute, and the fmt attribute is the result
C8_SingleNextToBound ==
    /\ epc = "looked_up"
    /\ lookup.meta_key = "fmt"
    /\ Cardinality(Carrying(lookup.trait_attr, lookup.attrs, "fmt")) = 1
    /\ Cardinality(Carrying(lookup.trait_attr, lookup.attrs, "bound")) = 1
    /\ lookup.result.status = "Ok"
    /\ lookup.result.meta # NoMeta

\* the attribute lists of the fields of a field list
FieldAttrs(fields) == {fields.list[i].attrs : i \in DOMAIN fields.list}

\* the attribute lists of every attachment point: item, variants and fields
AttachmentPoints ==
    {decl.attrs} \cup FieldAttrs(decl.fields)
    \cup {decl.variants[v].attrs : v \in DOMAIN decl.variants}
    \cup UNION {FieldAttrs(decl.variants[v].fields) : v \in DOMAIN decl.variants}

\* C9, as worded: two or more bound attributes of the namespace on any
\* attachment point (item, variant or field) make expand fail with an error.
C9_DuplicateBoundAnywhereFails ==
    (epc = "expanded"
     /\ \E attrs \in AttachmentPoints :
           Cardinality(Carrying(DerivedAttr, attrs, "bound")) >= 2)
    => output.result.status = "Err"

\* C9: two or more bound attributes of the namespace on the item keep expand
\* from succeeding (it ends in an error, or in a panic raised before the bound
\* attribute is looked up); the attributes of variants and fields are not
\* looked up for bound.
C9_DuplicateItemBoundFails ==
    (epc = "expanded"
     /\ Cardinality(Carrying(DerivedAttr, decl.attrs, "bound")) >= 2)
    => output.result.status # "Ok"

\* C9 witness: a struct with two bound attributes on the item, which expand
\* refuses with Too many attributes specified
C9_Witness ==
    /\ epc = "expanded"
    /\ decl.kind = "struct"
    /\ Cardinality(Carrying(DerivedAttr, decl.attrs, "bound")) = 2
    /\ output.result.status = "Err"
    /\ output.result.msg = TooManyMsg

(***************************************************************************)
(* Properties of the shapes.                                               *)
(***************************************************************************)
\* find_meta hands over nothing for fmt: no attribute of the namespace in attrs
\* carries fmt and none is rejected
NoFmtOn(attrs) ==
    /\ Carrying(DerivedAttr, attrs, "fmt") = {}
    /\ ~SomeRejected(DerivedAttr, attrs)

\* the one fmt attribute find_meta hands over from attrs
TheFmtOn(attrs) ==
    attrs[CHOOSE i \in DOMAIN attrs : i \in Carrying(DerivedAttr, attrs, "fmt")].meta

\* find_meta hands over one fmt attribute from attrs
OneFmtOn(attrs) ==
    /\ Cardinality(Carrying(DerivedAttr, attrs, "fmt")) = 1
    /\ ~SomeRejected(DerivedAttr, attrs)

\* the number of placeholders of the format string of a fmt attribute
PlaceholderCount(meta) == Len(parse_fmt_string(Head(meta.nested).str))

\* the state of an enum by its item-level fmt attribute: "none" without one,
\* "literal" for a string without placeholder, "affix" for one placeholder that
\* is positional argument 0, "other" for everything else (a lookup or an affix
\* that fails); the attribute has no further arguments in the first three
EnumState ==
    IF NoFmtOn(decl.attrs) THEN "none"
    ELSE IF ~OneFmtOn(decl.attrs) \/ Len(TheFmtOn(decl.attrs).nested) > 1 THEN "other"
    ELSE IF PlaceholderCount(TheFmtOn(decl.attrs)) = 0 THEN "literal"
    ELSE IF /\ PlaceholderCount(TheFmtOn(decl.attrs)) = 1
            /\ parse_fmt_string(Head(TheFmtOn(decl.attrs).nested).str)[1].arg
                 = Positional(0)
    THEN "affix"
    ELSE "other"

\* the body the claims expect for fields without fmt attribute: the name for no
\* field, the fmt of the derived trait on the one field
ExpectedInferred(fields, name) ==
    IF fields.list = <<>> THEN WriteStrBody(name)
    ELSE DelegateBody("::core::fmt::" \o DerivedTrait,
                      IF fields.list[1].ident # "" THEN fields.list[1].ident ELSE "_0")

\* C11, as worded: every struct and every enum variant without fmt attribute has
\* the inferred body for zero or one field, and makes expand fail with the
\* more-than-1-field error for more.
C11_InferredWithoutFmt ==
    epc = "expanded" =>
       /\ (decl.kind = "struct" /\ Carrying(DerivedAttr, decl.attrs, "fmt") = {})
            => /\ Len(decl.fields.list) > 1
                    => /\ output.result.status = "Err"
                       /\ output.result.msg = MoreThanOneFieldMsg
               /\ (Len(decl.fields.list) <= 1 /\ output.result.status = "Ok")
                    => output.result.arms[1].body
                         = ExpectedInferred(decl.fields, decl.ident)
       /\ \A v \in DOMAIN decl.variants :
             Carrying(DerivedAttr, decl.variants[v].attrs, "fmt") = {}
               => /\ Len(decl.variants[v].fields.list) > 1
                       => /\ output.result.status = "Err"
                          /\ output.result.msg = MoreThanOneFieldMsg
                  /\ (Len(decl.variants[v].fields.list) <= 1
                      /\ output.result.status = "Ok")
                       => /\ v <= Len(output.result.arms)
                          /\ output.result.arms[v].body
                               = ExpectedInferred(decl.variants[v].fields,
                                                  decl.variants[v].ident)

\* the variants before v carry no attribute of the namespace and have at most
\* one field
PlainBefore(v) ==
    \A u \in 1..(v - 1) :
       /\ \A i \in DOMAIN decl.variants[u].attrs :
             decl.variants[u].attrs[i].path # DerivedAttr
       /\ Len(decl.variants[u].fields.list) <= 1

\* C11: the body is inferred where find_meta hands over no fmt attribute, on a
\* struct and on the variants of an enum in the states none and affix. There
\* more than one field keeps expand from succeeding, with the more-than-1-field
\* error on a struct and on a variant behind plain variants (unless a panic of
\* the generator comes first), and on success the arm has the body of the name
\* (no field) or of the one field. In the state literal the fields of the
\* variants are not looked at.
C11_InferredWhereLookedUp ==
    epc = "expanded" =>
       /\ (decl.kind = "struct" /\ NoFmtOn(decl.attrs))
            => /\ Len(decl.fields.list) > 1
                    => /\ output.result.status = "Err"
                       /\ output.result.msg = MoreThanOneFieldMsg
               /\ (Len(decl.fields.list) <= 1 /\ output.result.status = "Ok")
                    => output.result.arms[1].body
                         = ExpectedInferred(decl.fields, decl.ident)
       /\ (decl.kind = "enum" /\ EnumState \in {"none", "affix"})
            => \A v \in DOMAIN decl.variants :
                  NoFmtOn(decl.variants[v].attrs)
                    => /\ Len(decl.variants[v].fields.list) > 1
                            => /\ output.result.status # "Ok"
                               /\ (PlainBefore(v) /\ output.result.status = "Err")
                                    => output.result.msg = MoreThanOneFieldMsg
                       /\ (Len(decl.variants[v].fields.list) <= 1
                           /\ output.result.status = "Ok")
                            => /\ Len(output.result.arms) = Len(decl.variants)
                               /\ output.result.arms[v].body
                                    = ExpectedInferred(decl.variants[v].fields,
                                                       decl.variants[v].ident)

\* C11 witness: an enum without item-level fmt whose second variant has two
\* fields and no attribute, refused with the more-than-1-field error
C11_Witness ==
    /\ epc = "expanded"
    /\ decl.kind = "enum"
    /\ EnumState = "none"
    /\ Len(decl.variants) = 2
    /\ decl.variants[2].attrs = <<>>
    /\ Len(decl.variants[2].fields.list) = 2
    /\ output.result.status = "Err"
    /\ output.result.msg = MoreThanOneFieldMsg

\* the single wildcard arm that writes the item-level literal
LiteralArm ==
    Arm("_", NoMatcher, WriteBody(Head(TheFmtOn(decl.attrs).nested).str, <<>>, {}),
        <<>>)

VariantsWithFmtOrRejected ==
    {v \in DOMAIN decl.variants : ~NoFmtOn(decl.variants[v].attrs)}

\* the error of the first variant of VariantsWithFmtOrRejected: the one of the
\* lookup if it fails there, the fmt-on-variant message otherwise
FirstVariantError(v) ==
    IF SomeRejected(DerivedAttr, decl.variants[v].attrs)
       \/ Cardinality(Carrying(DerivedAttr, decl.variants[v].attrs, "fmt")) >= 2
    THEN find_meta(DerivedAttr, decl.variants[v].attrs, "fmt").msg
    ELSE FmtOnVariantMsg

OwnBody(v) ==
    ShapeBody(State("::core::fmt::" \o DerivedTrait, DerivedAttr, decl),
              decl.variants[v].attrs, decl.variants[v].fields,
              decl.variants[v].ident, FALSE)

\* the arm of variant v that writes the outer format string with the wrapper
\* around the body of the variant
WrappedArm(v) ==
    Arm(decl.variants[v].ident, get_matcher(decl.variants[v].fields),
        OwnBody(v).arms[1], Head(TheFmtOn(decl.attrs).nested).str)

\* the variants whose own body fails
FailingVariants == {v \in DOMAIN decl.variants : OwnBody(v).status # "Ok"}

\* C14, as worded: with an item-level format string of exactly one placeholder,
\* expand emits one wrapped arm per variant in declaration order when every
\* variant has a body, and fails with the error of a variant whose body fails.
C14_OnePlaceholderWraps ==
    (/\ epc = "expanded"
     /\ decl.kind = "enum"
     /\ OneFmtOn(decl.attrs)
     /\ PlaceholderCount(TheFmtOn(decl.attrs)) = 1)
    => /\ FailingVariants = {}
            => /\ output.result.status = "Ok"
               /\ output.result.arms = [v \in DOMAIN decl.variants |-> WrappedArm(v)]
       /\ FailingVariants # {}
            => /\ output.result.status = "Err"
               /\ \E v \in FailingVariants : output.result.msg = OwnBody(v).msg

\* C14: in the state affix (one placeholder that is positional argument 0, no
\* further argument) expand succeeds exactly when every variant has a body and
\* the item carries at most one bound attribute (the bounds written here are
\* accepted ones); then there is one arm per variant, in declaration order,
\* writing the outer format string with the wrapper around the body of the
\* variant, and the helper struct is emitted. When some variant has no body,
\* expand ends as the body of the first such variant does.
C14_AffixWrapsEachVariant ==
    (epc = "expanded" /\ decl.kind = "enum" /\ EnumState = "affix")
    => /\ (output.result.status = "Ok")
            = (/\ FailingVariants = {}
               /\ Cardinality(Carrying(DerivedAttr, decl.attrs, "bound")) <= 1)
       /\ output.result.status = "Ok"
            => /\ output.result.arms = [v \in DOMAIN decl.variants |-> WrappedArm(v)]
               /\ output.result.helper_struct
       /\ \A v \in FailingVariants :
             (\A u \in FailingVariants : v <= u)
               => /\ output.result.status = OwnBody(v).status
                  /\ output.result.msg = OwnBody(v).msg

\* C14 witness: two variants, the first with its own fmt attribute and the
\* second with one field and none, generated as two wrapped arms
C14_Witness ==
    /\ epc = "expanded"
    /\ decl.kind = "enum"
    /\ EnumState = "affix"
    /\ Len(decl.variants) = 2
    /\ OneFmtOn(decl.variants[1].attrs)
    /\ NoFmtOn(decl.variants[2].attrs)
    /\ Len(decl.variants[2].fields.list) = 1
    /\ output.result.status = "Ok"
    /\ output.result.arms = <<WrappedArm(1), WrappedArm(2)>>
    /\ output.result.arms[2].body = ExpectedInferred(decl.variants[2].fields, "V2")

\* the body and the bounds of variant v on its own, as for a struct
OwnBodyAndBounds(v) ==
    ShapeBody(State("::core::fmt::" \o DerivedTrait, DerivedAttr, decl),
              decl.variants[v].attrs, decl.variants[v].fields,
              decl.variants[v].ident, TRUE)

\* the arm of variant v that writes the body of the variant
PlainArm(v) ==
    Arm(decl.variants[v].ident, get_matcher(decl.variants[v].fields),
        OwnBodyAndBounds(v).arms[1], <<>>)

\* the bounds of the item-level bound attribute, none without one
ItemBounds ==
    IF Carrying(DerivedAttr, decl.attrs, "bound") = {} THEN {}
    ELSE parse_meta_bounds(
             decl.type_params,
             decl.attrs[CHOOSE i \in DOMAIN decl.attrs :
                           i \in Carrying(DerivedAttr, decl.attrs, "bound")]
                 .meta.nested[1].generics).bounds

\* C15: for an enum without item-level fmt attribute, a successful expand has
\* one arm per variant, in declaration order, each with the body of the variant
\* (the one of its fmt attribute, the inferred one otherwise), and its bounds
\* are the union over the variants of the bounds of each variant, to which only
\* the bounds of the item-level bound attribute are added; expand succeeds
\* when every variant has body and bounds and at most one bound attribute is
\* written.
C15_PerVariantArmsAndUnion ==
    (epc = "expanded" /\ decl.kind = "enum" /\ EnumState = "none")
    => /\ (output.result.status = "Ok")
            = (/\ \A v \in DOMAIN decl.variants : OwnBodyAndBounds(v).status = "Ok"
               /\ Cardinality(Carrying(DerivedAttr, decl.attrs, "bound")) <= 1)
       /\ output.result.status = "Ok"
            => /\ output.result.arms = [v \in DOMAIN decl.variants |-> PlainArm(v)]
               /\ output.result.where_bounds
                    = UNION {OwnBodyAndBounds(v).bounds : v \in DOMAIN decl.variants}
                      \cup ItemBounds
               /\ ~output.result.helper_struct

\* C15 witness: the first variant delegates to its field of type T, the second
\* writes its field of type T with {a:?}; T gets the traits of both variants
C15_Witness ==
    /\ epc = "expanded"
    /\ decl.kind = "enum"
    /\ EnumState = "none"
    /\ ItemBounds = {}
    /\ Len(decl.variants) = 2
    /\ NoFmtOn(decl.variants[1].attrs)
    /\ OneFmtOn(decl.variants[2].attrs)
    /\ output.result.status = "Ok"
    /\ OwnBodyAndBounds(1).bounds = {Bound("T", "::core::fmt::Display")}
    /\ OwnBodyAndBounds(2).bounds = {Bound("T", "::core::fmt::Debug")}
    /\ output.result.where_bounds
         = {Bound("T", "::core::fmt::Display"), Bound("T", "::core::fmt::Debug")}
    /\ output.result.arms = <<PlainArm(1), PlainArm(2)>>

\* expand failed with the no-inference-for-unions error
NoUnionInference ==
    /\ output.result.status = "Err"
    /\ output.result.msg = NoUnionInferenceMsg

\* C16, as worded: on a union expand fails with the no-inference error exactly
\* when no attribute of the item carries fmt; with one, the match generated is
\* the single wildcard arm writing that format, without destructuring.
C16_UnionNeedsFmt ==
    (epc = "expanded" /\ decl.kind = "union")
    => /\ NoUnionInference = (Carrying(DerivedAttr, decl.attrs, "fmt") = {})
       /\ (Carrying(DerivedAttr, decl.attrs, "fmt") # {}
           /\ output.result.status = "Ok")
            => output.result.arms
                 = <<Arm("_", NoMatcher,
                         parse_meta_fmt(DerivedAttr, TheFmtOn(decl.attrs), FALSE).body,
                         <<>>)>>

\* C16: on a union expand fails with the no-inference error exactly when
\* the fmt lookup hands over nothing (no fmt attribute and no rejected
\* attribute of the namespace on the item). When the lookup hands over one fmt
\* attribute that parses, expand succeeds if at most one bound attribute is
\* written, and a successful expand has the single wildcard arm writing that
\* format, whatever the fields of the union.
C16_UnionNeedsFmtLookup ==
    (epc = "expanded" /\ decl.kind = "union")
    => /\ NoUnionInference = NoFmtOn(decl.attrs)
       /\ output.result.status = "Ok" => OneFmtOn(decl.attrs)
       /\ (/\ OneFmtOn(decl.attrs)
           /\ parse_meta_fmt(DerivedAttr, TheFmtOn(decl.attrs), FALSE).status = "Ok"
           /\ Cardinality(Carrying(DerivedAttr, decl.attrs, "bound")) <= 1)
            => output.result.status = "Ok"
       /\ output.result.status = "Ok"
            => output.result.arms
                 = <<Arm("_", NoMatcher,
                         parse_meta_fmt(DerivedAttr, TheFmtOn(decl.attrs), FALSE).body,
                         <<>>)>>

\* C16 witness: a union of two fields with a bound attribute and no fmt
\* attribute, refused with the no-inference error
C16_Witness ==
    /\ epc = "expanded"
    /\ decl.kind = "union"
    /\ Len(decl.fields.list) = 2
    /\ Carrying(DerivedAttr, decl.attrs, "bound") # {}
    /\ NoFmtOn(decl.attrs)
    /\ NoUnionInference

\* a union of two fields with a fmt attribute, generated as the wildcard arm
C16_WildcardReached ==
    /\ epc = "expanded"
    /\ decl.kind = "union"
    /\ Len(decl.fields.list) = 2
    /\ OneFmtOn(decl.attrs)
    /\ output.result.status = "Ok"
    /\ output.result.arms[1].pattern = "_"
    /\ output.result.arms[1].matcher = NoMatcher

(***************************************************************************)
(* Properties of get_used_type_params_bounds.                              *)
(***************************************************************************)
\* the placeholders of the format string of the attribute
UsedPhs == parse_fmt_string(Head(UsedMeta.nested).str)

\* the explicit arguments after the format literal
UsedArgs == Tail(UsedMeta.nested)

\* the fields whose type mentions a declared type parameter
UsingFields ==
    {i \in DOMAIN decl.fields.list :
        decl.fields.list[i].ty.uses \cap decl.type_params # {}}

\* the type a field is bounded by: its type, the type referred to for a reference
KeyOfField(i) ==
    IF decl.fields.list[i].ty.elem # "" THEN decl.fields.list[i].ty.elem
    ELSE decl.fields.list[i].ty.repr

\* the name a field is referred to by: its identifier, _i for the i-th tuple field
NameOfField(i) ==
    IF decl.fields.shape = "Named" THEN decl.fields.list[i].ident
    ELSE "_" \o ToString(i - 1)

\* the path i-th explicit argument (0-based, every argument counted) is, ""
\* when there is no such argument or it is no path
PathOfArg(i) ==
    IF i >= Len(UsedArgs) THEN ""
    ELSE IF UsedArgs[i + 1].kind = "Path" THEN UsedArgs[i + 1].path
    ELSE IF UsedArgs[i + 1].expr \in {"a", "b", "_0", "_1"} THEN UsedArgs[i + 1].expr
    ELSE ""

\* the fields placeholder k resolves to: by its name, or by the path of the
\* explicit argument at its index
ResolvedFields(k) ==
    {i \in UsingFields :
        NameOfField(i) = IF UsedPhs[k].arg.tag = "Named" THEN UsedPhs[k].arg.name
                         ELSE PathOfArg(UsedPhs[k].arg.index)}

\* the bounds placeholder k contributes
Contribution(k) ==
    {Bound(KeyOfField(i), "::core::fmt::" \o UsedPhs[k].trait_name) :
        i \in ResolvedFields(k)}

\* the traits the result gives type ty
TraitsOf(ty) == {b.bound : b \in {c \in output.bounds : c.ty = ty}}

\* C17: the bound set of the type of a field that uses a type parameter is
\* exactly the set of the traits of the placeholders that resolve to a field
\* of that type (two placeholders of different traits give both traits), and a
\* type no placeholder resolves to has no entry; without declared type
\* parameters there is no entry at all.
C17_BoundsOfResolvedPlaceholders ==
    epc = "used" =>
       /\ \A i \in DOMAIN decl.fields.list :
             TraitsOf(KeyOfField(i))
               = {"::core::fmt::" \o UsedPhs[k].trait_name :
                    k \in {j \in DOMAIN UsedPhs :
                              \E f \in ResolvedFields(j) : KeyOfField(f) = KeyOfField(i)}}
       /\ \A b \in output.bounds : \E i \in UsingFields : b.ty = KeyOfField(i)

\* C17 witness: struct S<T, U> { a: T, b: U } with fmt = "{a}{a:?}": T gets
\* Display and Debug, U gets no entry
C17_Witness ==
    /\ epc = "used"
    /\ decl.fields.shape = "Named"
    /\ Len(decl.fields.list) = 2
    /\ decl.fields.list[1].ty = TypeT
    /\ decl.fields.list[2].ty = TypeU
    /\ Head(UsedMeta.nested).str = <<"{", "a", "}", "{", "a", ":", "?", "}">>
    /\ output.bounds
         = {Bound("T", "::core::fmt::Display"), Bound("T", "::core::fmt::Debug")}

\* C18: a positional placeholder of index i contributes, for the fields whose
\* name is the path of the i-th explicit argument (0-based, arguments that are
\* no path counted too) and whose type uses a type parameter, its trait on the
\* type of the field; when there is no i-th argument, or it is no such field,
\* the result holds only what the other placeholders contribute.
C18_PositionalByExplicitArgument ==
    epc = "used" =>
       \A k \in DOMAIN UsedPhs :
          UsedPhs[k].arg.tag = "Positional"
            => /\ Contribution(k) \subseteq output.bounds
               /\ ResolvedFields(k) = {}
                    => output.bounds
                         = UNION {Contribution(j) : j \in DOMAIN UsedPhs \ {k}}

\* C18 witness: S<T, U> { a: T } with fmt = "{1:?}", "a.len()", a: the
\* placeholder reads the second explicit argument and T gets Debug
C18_Witness ==
    /\ epc = "used"
    /\ decl.type_params = {"T", "U"}
    /\ decl.fields.shape = "Named"
    /\ Len(decl.fields.list) = 1
    /\ decl.fields.list[1].ty = TypeT
    /\ UsedArgs = <<NestedLit("a.len()"), NestedPath("a")>>
    /\ Head(UsedMeta.nested).str = <<"{", "1", ":", "?", "}">>
    /\ output.bounds = {Bound("T", "::core::fmt::Debug")}

\* the i-th tuple field is referred to as _i: S<T, U>(U, T) with fmt = "{}", _1
C18_TupleFieldReached ==
    /\ epc = "used"
    /\ decl.fields.shape = "Unnamed"
    /\ Len(decl.fields.list) = 2
    /\ decl.fields.list[1].ty = TypeU
    /\ decl.fields.list[2].ty = TypeT
    /\ UsedArgs = <<NestedPath("_1")>>
    /\ Head(UsedMeta.nested).str = <<"{", "}">>
    /\ output.bounds = {Bound("T", "::core::fmt::Display")}

(***************************************************************************)
(* Properties of parse_meta_bounds.                                        *)
(***************************************************************************)
\* the clauses of the literal
Clauses == LitGenerics.params

\* clause i is one of the forms refused whatever the other clauses: no type
\* parameter, an undeclared one, with attributes, with a default, with a
\* lifetime bound or a higher-rank trait bound
RefusedClause(i) ==
    \/ Clauses[i].kind # "Type"
    \/ Clauses[i].ident \notin decl.type_params
    \/ Clauses[i].attrs
    \/ Clauses[i].default
    \/ \E k \in DOMAIN Clauses[i].bounds :
          Clauses[i].bounds[k].kind # "Trait" \/ Clauses[i].bounds[k].hrtb

\* the traits listed for the parameter called ident in the clauses 1..n
ListedFor(ident, n) ==
    UNION {{Clauses[i].bounds[k].path : k \in DOMAIN Clauses[i].bounds} :
             i \in {j \in 1..n : Clauses[j].ident = ident}}

\* the map of every listed trait, keyed by the parameter of its clause
ListedBounds ==
    UNION {{Bound(Clauses[i].ident, path) :
               path \in ListedFor(Clauses[i].ident, Len(Clauses))} :
             i \in DOMAIN Clauses}

C19_BareClauseFirstReached ==
    /\ epc = "bounds_parsed"
    /\ Len(Clauses) = 2
    /\ Clauses[1] = GenericParam("Type", "T")
    /\ Clauses[2].ident = "T"
    /\ Len(Clauses[2].bounds) = 1
    /\ ~RefusedClause(2)
    /\ output.result.status = "Err"
    /\ output.result.msg = "No bounds specified for type parameter T"

(***************************************************************************)
(* Properties of the bounds of the where-clause.                           *)
(***************************************************************************)
\* the bounds the shape of the item comes with, before the bound attribute:
\* those of the fields and the fmt attribute of a struct, the union over the
\* variants for an enum without item-level fmt, none for the other enums and
\* for a union
InferredBounds ==
    IF decl.kind = "struct"
    THEN ShapeBody(State("::core::fmt::" \o DerivedTrait, DerivedAttr, decl),
                   decl.attrs, decl.fields, decl.ident, TRUE).bounds
    ELSE IF decl.kind = "enum" /\ EnumState = "none"
    THEN UNION {OwnBodyAndBounds(v).bounds : v \in DOMAIN decl.variants}
    ELSE {}

\* C20: after a successful expand the bounds of the where-clause are exactly
\* the bounds of the shape together with the bounds of the item-level bound
\* attribute, for every type key; without bound attribute they are the bounds
\* of the shape, and when both are empty no bound is added to the generics of
\* the item.
C20_WhereBoundsAreTheUnion ==
    (epc = "expanded" /\ output.result.status = "Ok")
    => /\ \A b \in output.result.where_bounds \cup InferredBounds \cup ItemBounds :
             (b \in output.result.where_bounds) = (b \in InferredBounds \/ b \in ItemBounds)
       /\ Carrying(DerivedAttr, decl.attrs, "bound") = {}
            => output.result.where_bounds = InferredBounds
       /\ (InferredBounds = {} /\ ItemBounds = {}) => output.result.where_bounds = {}

\* C20 witness: struct S<T>(T) with bound = "T: Display": the where-clause has
\* the inferred bound of the field and the bound of the attribute
C20_Witness ==
    /\ epc = "expanded"
    /\ decl.kind = "struct"
    /\ Len(decl.fields.list) = 1
    /\ output.result.status = "Ok"
    /\ InferredBounds = {Bound("T", "::core::fmt::Display")}
    /\ ItemBounds = {Bound("T", "Display")}
    /\ output.result.where_bounds
         = {Bound("T", "::core::fmt::Display"), Bound("T", "Display")}

\* an affix enum with a field of type T and no bound attribute: no bound at all
C20_NoBoundsReached ==
    /\ epc = "expanded"
    /\ decl.kind = "enum"
    /\ EnumState = "affix"
    /\ \E v \in DOMAIN decl.variants :
          /\ Len(decl.variants[v].fields.list) = 1
          /\ decl.variants[v].fields.list[1].ty = TypeT
    /\ output.result.status = "Ok"
    /\ output.result.where_bounds = {}

C22_CodeOrReturnedError ==
    epc = "expanded"
    => /\ output.result.status \in {"Ok", "Err"}
       /\ output.result.status = "Err"
            => /\ output.result.msg # ""
               /\ output.result.arms = <<>>
               /\ output.result.where_bounds = {}
               /\ ~output.result.helper_struct

(***************************************************************************)
(* Properties of the body of a fmt attribute.                              *)
(***************************************************************************)
\* the explicit arguments of the fmt attribute
ExplicitArgs == Tail(FmtMeta.nested)

\* the format string of the fmt attribute
FmtString == Head(FmtMeta.nested).str

\* an argument that is a bare path or a string literal
PathOrString(arg) == arg.kind = "Path" \/ (arg.kind = "Lit" /\ arg.lit = "Str")

\* an argument that is a bare path or a string literal that lexes
Passable(arg) == arg.kind = "Path" \/ (PathOrString(arg) /\ arg.expr # "(")

\* what an argument is passed as: the path, or the tokens of the string
PassedAs(arg) == IF arg.kind = "Path" THEN arg.path ELSE arg.expr

\* the fmt attribute is the one of a struct or of a variant
OnStructOrVariant == decl.kind = "struct" \/ OnVariant

C23_ProperSyntaxReached ==
    /\ epc = "expanded"
    /\ OnVariant
    /\ Len(ExplicitArgs) = 2
    /\ ExplicitArgs[1] = NestedPath("a")
    /\ ExplicitArgs[2] = NestedList("x")
    /\ output.result.status = "Err"
    /\ output.result.msg = ProperFmtSyntax("display")


(***************************************************************************)
(* Properties of the Unwrap derive.                                        *)
(***************************************************************************)
\* the variant whose accessor was called, and the variant of the value
CalledVariant == enabled_variant_data(decl.variants)[output.func]
SelfVariant == decl.variants[output.self]

\* the values of the fields of a variant, in declaration order
PayloadOf(variant) ==
    [n \in 1..Len(variant.fields.list) |-> variant.ident \o "." \o ToString(n - 1)]

\* C24: the accessor of an enabled variant V with unnamed or unit fields
\* returns the payload of V (its fields in declaration order, nothing for a
\* unit variant) when the value is V, and panics with a message naming the
\* enum, the accessor and the value's variant when the value is another
\* variant; it never returns the payload of another variant.
C24_AccessorReturnsOwnPayload ==
    epc = "called" =>
        /\ CalledVariant.fields.shape \in {"Unnamed", "Unit"}
        /\ output.result.funcs[output.func].fn_name
             = "unwrap_" \o to_case_snake(CalledVariant.ident)
        /\ IF SelfVariant.ident = CalledVariant.ident
           THEN /\ output.outcome.kind = "return"
                /\ output.outcome.payload = PayloadOf(CalledVariant)
           ELSE /\ output.outcome.kind = "panic"
                /\ output.outcome.msg
                     = "called E::unwrap_" \o to_case_snake(CalledVariant.ident)
                         \o "() on a " \o SelfVariant.ident \o " value"

\* a two-field tuple variant unwrapped, in an enum with a second variant
C24_Witness ==
    /\ epc = "called"
    /\ SelfVariant.ident = CalledVariant.ident
    /\ output.outcome.payload = <<"Foo.0", "Foo.1">>
    /\ Len(decl.variants) = 2

\* an accessor called on a value of an ignored variant with named fields
C24_MismatchReached ==
    /\ epc = "called"
    /\ SelfVariant.fields.shape = "Named"
    /\ output.outcome.msg = "called E::unwrap_foo_bar() on a Foo value"


\* the variants with and without #[unwrap(ignore)]
IgnoredVariants ==
    {i \in DOMAIN decl.variants :
        \E k \in DOMAIN decl.variants[i].attrs : decl.variants[i].attrs[k] = IgnoreAttr}
EnabledVariants == DOMAIN decl.variants \ IgnoredVariants

\* the accessors generated under the name of variant i
AccessorsOf(i) ==
    {f \in DOMAIN output.result.funcs :
        output.result.funcs[f].fn_name
          = "unwrap_" \o to_case_snake(decl.variants[i].ident)}

\* the arms of accessor f on variant i that return, and those that panic
ReturningArms(f, i) ==
    {a \in DOMAIN output.result.funcs[f].arms :
        /\ output.result.funcs[f].arms[a].variant = decl.variants[i].ident
        /\ output.result.funcs[f].arms[a].msg = ""}
PanickingArms(f, i) ==
    {a \in DOMAIN output.result.funcs[f].arms :
        /\ output.result.funcs[f].arms[a].variant = decl.variants[i].ident
        /\ output.result.funcs[f].arms[a].msg # ""}

\* the shape a panicking arm's pattern is written for
ShapePattern(i) ==
    IF decl.variants[i].fields.shape = "Named" THEN "{..}"
    ELSE IF decl.variants[i].fields.shape = "Unnamed" THEN "(..)" ELSE ""

\* one accessor per enabled variant, none for an ignored one, each with one
\* returning arm for its own variant, one panicking arm of the right pattern
\* for every other variant, and some arm for every value of the enum
AccessorsAreExhaustive ==
    /\ Len(output.result.funcs) = Cardinality(EnabledVariants)
    /\ \A i \in IgnoredVariants : AccessorsOf(i) = {}
    /\ \A i \in EnabledVariants :
          /\ Cardinality(AccessorsOf(i)) = 1
          /\ \A f \in AccessorsOf(i) :
                /\ Len(output.result.funcs[f].arms) = Len(decl.variants)
                /\ Cardinality(ReturningArms(f, i)) = 1
                /\ PanickingArms(f, i) = {}
                /\ \A j \in DOMAIN decl.variants \ {i} :
                      /\ ReturningArms(f, j) = {}
                      /\ Cardinality(PanickingArms(f, j)) = 1
                      /\ \A a \in PanickingArms(f, j) :
                            output.result.funcs[f].arms[a].pattern = ShapePattern(j)
                /\ \A j \in DOMAIN decl.variants :
                      MatchSelf(output.result.funcs[f].arms,
                                ValueOf(decl.variants[j])).kind # "no arm"

\* C29 as worded: one accessor is generated per enabled variant and none for
\* an ignored one, and the match of every accessor is exhaustive, for every
\* enum.
C29_AccessorPerEnabledVariant ==
    epc = "unwrapped" => AccessorsAreExhaustive

\* C29: when no enabled variant has named fields, one accessor is generated
\* per enabled variant and none for an ignored one, and the match of every
\* accessor is exhaustive: one returning arm for its own variant and one
\* panicking arm for every other variant, ignored ones included, with the
\* pattern of that variant's shape; when an enabled variant has named fields
\* the generator panics and nothing is generated.
C29_AccessorPerEnabledTupleOrUnit ==
    epc = "unwrapped" =>
        IF \E i \in EnabledVariants : decl.variants[i].fields.shape = "Named"
        THEN /\ output.result.status = "Panic"
             /\ output.result.msg = "cannot unwrap anonymous records"
             /\ output.result.funcs = <<>>
        ELSE /\ output.result.status = "Ok"
             /\ AccessorsAreExhaustive

\* two accessors generated, next to an ignored variant with named fields
C29_Witness ==
    /\ epc = "unwrapped"
    /\ output.result.status = "Ok"
    /\ Len(output.result.funcs) = 2
    /\ \E i \in IgnoredVariants : decl.variants[i].fields.shape = "Named"

\* the generator refusing an enabled variant with named fields
C29_NamedFieldsReached ==
    /\ epc = "unwrapped"
    /\ output.result.status = "Panic"
    /\ Len(decl.variants) = 2


\* C30: the documentation of each generated accessor names the variant the
\* accessor unwraps, "Unwraps this value to the <variant> variant", with the
\* variant's own identifier, different for accessors of different variants.
C30_DocNamesTheVariant ==
    (epc = "unwrapped" /\ output.result.status = "Ok") =>
        /\ \A i \in EnabledVariants : \A f \in AccessorsOf(i) :
              output.result.funcs[f].doc
                = "Unwraps this value to the " \o decl.variants[i].ident
                    \o " variant. Panics if this value is of any other type"
        /\ \A f, g \in DOMAIN output.result.funcs :
              f # g => output.result.funcs[f].doc # output.result.funcs[g].doc

\* two accessors carrying the same documentation, which names no variant
C30_SameDocReached ==
    /\ epc = "unwrapped"
    /\ Len(output.result.funcs) = 2
    /\ output.result.funcs[1].doc = output.result.funcs[2].doc
    /\ output.result.funcs[1].doc
         = "Unwraps this value to the variant_ident variant. "
             \o "Panics if this value is of any other type"


(***************************************************************************)
(* Properties of the FromStr derive.                                       *)
(***************************************************************************)
\* the variants whose lowercase name is the lowercase of the string
SameLowercase(src) ==
    {i \in DOMAIN decl.variants :
        to_lowercase(decl.variants[i].ident) = to_lowercase(src)}

\* the variants the string stands for: the only one of that lowercase name,
\* or the one of exactly that name
StandsFor(src) ==
    {i \in SameLowercase(src) :
        SameLowercase(src) = {i} \/ decl.variants[i].ident = src}

\* C25: for an enum of field-less variants, from_str(s) returns variant V
\* exactly when lowercase(s) is the lowercase name of V and either V is the
\* only variant of that lowercase name or s is V's name exactly; for every
\* other string it returns the generated Parse<Enum>Error.
C25_CaseInsensitiveUnlessCollision ==
    epc = "parsed" =>
        IF StandsFor(output.src) = {}
        THEN /\ ~output.parsed.ok
             /\ output.parsed.err = "ParseEError"
        ELSE /\ output.parsed.ok
             /\ \A i \in StandsFor(output.src) :
                   output.parsed.variant = decl.variants[i].ident

\* two variants whose lowercase names collide, and the string that is the
\* exact name of the second
C25_Witness ==
    /\ epc = "parsed"
    /\ Len(decl.variants) >= 2
    /\ decl.variants[1].ident = <<"A", "b">>
    /\ decl.variants[2].ident = <<"a", "b">>
    /\ output.src = <<"a", "b">>
    /\ output.parsed.ok
    /\ output.parsed.variant = <<"a", "b">>

\* a string refused although its lowercase is the lowercase name of variants
C25_CollisionRefusedReached ==
    /\ epc = "parsed"
    /\ Cardinality(SameLowercase(output.src)) = 2
    /\ output.src = <<"a", "B">>
    /\ ~output.parsed.ok

\* a single variant found by a string in another case
C25_OtherCaseReached ==
    /\ epc = "parsed"
    /\ output.src = <<"a", "B">>
    /\ output.parsed.ok
    /\ output.parsed.variant = <<"A", "b">>


(***************************************************************************)
(* Properties of the helper struct.                                        *)
(***************************************************************************)
\* the item is an enum whose fmt lookup hands over a format string of exactly
\* one placeholder
OnePlaceholderEnum ==
    /\ decl.kind = "enum"
    /\ OneFmtOn(decl.attrs)
    /\ PlaceholderCount(TheFmtOn(decl.attrs)) = 1

\* C26 as worded: the helper struct is emitted exactly when the item is an
\* enum whose item-level format string has exactly one placeholder.
C26_HelperForOnePlaceholder ==
    epc = "expanded" => (output.result.helper_struct = OnePlaceholderEnum)

\* C26: the helper struct is emitted exactly when expand succeeds on an enum
\* whose item-level fmt attribute is the format literal alone with exactly one
\* placeholder, positional argument 0; then every arm writes the outer format
\* string with the wrapper.  It is never emitted for a struct, a union, an
\* enum without item-level fmt or an enum whose format string has no
\* placeholder, and no arm of theirs uses the wrapper.
C26_HelperExactlyForAffix ==
    epc = "expanded" =>
        /\ output.result.helper_struct
             = (/\ output.result.status = "Ok"
                /\ decl.kind = "enum"
                /\ EnumState = "affix")
        /\ output.result.helper_struct
             => /\ OnePlaceholderEnum
                /\ Len(output.result.arms) = Len(decl.variants)
                /\ \A a \in DOMAIN output.result.arms :
                      output.result.arms[a].outer
                        = Head(TheFmtOn(decl.attrs).nested).str
        /\ (\/ decl.kind # "enum"
            \/ NoFmtOn(decl.attrs)
            \/ OneFmtOn(decl.attrs) /\ PlaceholderCount(TheFmtOn(decl.attrs)) = 0)
             => /\ ~output.result.helper_struct
                /\ \A a \in DOMAIN output.result.arms :
                      output.result.arms[a].outer = <<>>

\* the helper emitted for an enum of three variants, all arms wrapped
C26_Witness ==
    /\ epc = "expanded"
    /\ decl.kind = "enum"
    /\ output.result.helper_struct
    /\ Len(output.result.arms) = 3
    /\ \A a \in DOMAIN output.result.arms : output.result.arms[a].outer # <<>>

\* a successful struct with an explicit fmt attribute, without helper
C26_StructReached ==
    /\ epc = "expanded"
    /\ decl.kind = "struct"
    /\ OneFmtOn(decl.attrs)
    /\ output.result.status = "Ok"
    /\ ~output.result.helper_struct

\* an enum with one placeholder in its format string and a variant that has
\* no body: nothing is emitted
C26_FailedVariantReached ==
    /\ epc = "expanded"
    /\ OnePlaceholderEnum
    /\ EnumState = "affix"
    /\ output.result.status = "Err"
    /\ ~output.result.helper_struct


(***************************************************************************)
(* Properties of the bindings of a fmt attribute.                          *)
(***************************************************************************)
\* the names the placeholders of the format string use as argument, width or
\* precision
UsedNames ==
    {n \in {"a", "b"} :
        \E i \in DOMAIN parse_fmt_string(FmtString) :
           \/ parse_fmt_string(FmtString)[i].arg = Named(n)
           \/ parse_fmt_string(FmtString)[i].width = Named(n)
           \/ parse_fmt_string(FmtString)[i].precision = Named(n)}

\* the arguments of the emitted write call after the format literal: the
\* explicit arguments, then the bindings `name = name`
WriteCall ==
    [i \in DOMAIN output.result.arms[1].body.args |->
        [binding |-> FALSE, tokens |-> output.result.arms[1].body.args[i]]]
    \o [i \in DOMAIN EmittedArm(output.result.arms[1], DeterministicState(1)).body.named |->
          [binding |-> TRUE,
           tokens |-> EmittedArm(output.result.arms[1],
                                 DeterministicState(1)).body.named[i]]]

\* C27: when expand succeeds on a fmt attribute that is not the affix of an
\* enum, every name a placeholder uses as its argument, its width or its
\* precision is bound exactly once in the write call, after all explicit
\* arguments, and the call has no other binding: a name used several times is
\* bound once and positional references add none.
C27_EachUsedNameBoundOnce ==
    (epc = "expanded" /\ output.result.status = "Ok" /\ ~output.result.helper_struct)
    => /\ output.result.arms[1].body.kind = "write"
       /\ Len(WriteCall) = Len(ExplicitArgs) + Cardinality(UsedNames)
       /\ \A i \in DOMAIN WriteCall : WriteCall[i].binding = (i > Len(ExplicitArgs))
       /\ \A n \in UsedNames :
             Cardinality({i \in DOMAIN WriteCall :
                             WriteCall[i] = [binding |-> TRUE, tokens |-> n]}) = 1
       /\ \A i \in DOMAIN WriteCall :
             WriteCall[i].binding => WriteCall[i].tokens \in UsedNames

\* #[display(fmt = "{a}{:b$}", a)]: the explicit argument, then a and b bound
C27_Witness ==
    /\ epc = "expanded"
    /\ output.result.status = "Ok"
    /\ ExplicitArgs = <<NestedPath("a")>>
    /\ UsedNames = {"a", "b"}
    /\ Len(WriteCall) = 3
    /\ ~WriteCall[1].binding

\* #[display(fmt = "{a}{a:.a$}")] on a variant: a used three times, bound once
C27_RepeatedNameReached ==
    /\ epc = "expanded"
    /\ OnVariant
    /\ output.result.status = "Ok"
    /\ FmtString = <<"{", "a", "}", "{", "a", ":", ".", "a", "$", "}">>
    /\ WriteCall = <<[binding |-> TRUE, tokens |-> "a"]>>

\* #[display(fmt = "{}{1}", a, a)]: positional references alone, no binding
C27_PositionalReached ==
    /\ epc = "expanded"
    /\ output.result.status = "Ok"
    /\ FmtString = <<"{", "}", "{", "1", "}">>
    /\ UsedNames = {}
    /\ Len(WriteCall) = Len(ExplicitArgs)


(***************************************************************************)
(* Properties of the bounds under an item-level format.                    *)
(***************************************************************************)
\* some variant of the enum, or the union itself, has a field whose type uses
\* a type parameter of the item
SomeFieldUsesParam ==
    \/ \E v \in DOMAIN decl.variants : \E f \in DOMAIN decl.variants[v].fields.list :
          decl.variants[v].fields.list[f].ty.uses \cap decl.type_params # {}
    \/ \E f \in DOMAIN decl.fields.list :
          decl.fields.list[f].ty.uses \cap decl.type_params # {}

\* C28: for an enum with an item-level fmt attribute (without placeholder or
\* with one) and for a union, the where-clause of a successful expand holds
\* only the bounds of the item-level bound attribute, none without one,
\* whatever the types of the fields and the format strings of the variants.
C28_NoInferenceUnderItemFmt ==
    (/\ epc = "expanded"
     /\ output.result.status = "Ok"
     /\ \/ decl.kind = "union"
        \/ decl.kind = "enum" /\ OneFmtOn(decl.attrs))
    => /\ output.result.where_bounds = ItemBounds
       /\ Carrying(DerivedAttr, decl.attrs, "bound") = {}
            => output.result.where_bounds = {}

\* an enum with one placeholder in its fmt and a bound attribute, whose variant
\* has a field using a type parameter: only the bound of the attribute
C28_Witness ==
    /\ epc = "expanded"
    /\ decl.kind = "enum"
    /\ EnumState = "affix"
    /\ SomeFieldUsesParam
    /\ output.result.status = "Ok"
    /\ ItemBounds # {}
    /\ output.result.where_bounds = ItemBounds

\* an enum whose fmt has no placeholder, with a field using a type parameter
C28_LiteralReached ==
    /\ epc = "expanded"
    /\ decl.kind = "enum"
    /\ EnumState = "literal"
    /\ SomeFieldUsesParam
    /\ output.result.status = "Ok"
    /\ output.result.where_bounds = {}

\* a union with a field using a type parameter
C28_UnionReached ==
    /\ epc = "expanded"
    /\ decl.kind = "union"
    /\ SomeFieldUsesParam
    /\ output.result.status = "Ok"
    /\ output.result.where_bounds = {}

\* a variant with its own format string under the affix, its field of a type
\* parameter written by it
C28_VariantFmtReached ==
    /\ epc = "expanded"
    /\ decl.kind = "enum"
    /\ EnumState = "affix"
    /\ SomeFieldUsesParam
    /\ \E v \in DOMAIN decl.variants : OneFmtOn(decl.variants[v].attrs)
    /\ output.result.status = "Ok"
    /\ output.result.where_bounds = {}

=============================================================================
